---- MODULE Spec2Model ----
(***************************************************************************)
(* Model of the browser scorekeeping console in src/scripts.js: the event  *)
(* log, the derived counters, the two countdown clocks and the             *)
(* localStorage snapshot / restore protocol.                               *)
(*                                                                         *)
(* Conventions.                                                            *)
(*  - Every handler of the code is an operator from a "world" record (all  *)
(*    fields of the ScorekeeperApp, its managers, the DOM parts the logic  *)
(*    reads, and localStorage) to the world it leaves behind, so that a    *)
(*    handler which calls other handlers is their composition.  An action  *)
(*    applies one handler to the current variables.                        *)
(*  - Time is counted in seconds (every duration in the code is a whole    *)
(*    number of seconds, and getTimeRemaining truncates to seconds).       *)
(*    Instants are kept relative to the current instant: a Date field      *)
(*    holds (that instant - Date.now()), a write timestamp holds its age.  *)
(*  - A nullable number is <<>> (null) or <<n>>.  A nullable string is ""  *)
(*    (null and "" are both falsy in every test the code makes).           *)
(*  - scoreID is Date.now().toString(); the code only ever compares ids    *)
(*    for equality, so the model keeps the rank of an id among the ids of  *)
(*    the log (1, 2, ...).  Two Date.now() calls inside one handler may    *)
(*    return the same millisecond or not: input sameMs.                    *)
(***************************************************************************)
EXTENDS Integers, Sequences, FiniteSets, TLC

VARIABLES
  teamAScore, teamBScore,          \* ScorekeeperApp.teamAScore / teamBScore
  matchStarted, gameStoppageActive, hardCapReached,
  halftimeTriggered, halftimeAutoSuppressed,
  halftimePendingReason, halftimeReasonResolved, currentHalftimeEditID,
  stoppagePausedMainTimer, stoppagePausedSecondsTimer,
  abbaStart, gameSettings, timeoutState,
  scoreLogs,                       \* DataManager.scoreLogs (the event log)
  gameState, isDirty,              \* DataManager.gameState / isDirty
  timerManager, secondsTimer,      \* the two clocks
  table,                           \* rows of #scoringTableBody, oldest first
  teamA, teamB,                    \* values of the two team <select>s
  scorePopup,                      \* team of the score form on show, "" hidden
  storage,                         \* localStorage
  inFlight,                        \* submissions awaiting the remote sink
  lastOp                           \* the handler that ran last and its outcome

vars == << teamAScore, teamBScore, matchStarted, gameStoppageActive,
           hardCapReached, halftimeTriggered, halftimeAutoSuppressed,
           halftimePendingReason, halftimeReasonResolved,
           currentHalftimeEditID, stoppagePausedMainTimer,
           stoppagePausedSecondsTimer, abbaStart, gameSettings, timeoutState,
           scoreLogs, gameState, isDirty, timerManager, secondsTimer, table,
           teamA, teamB, scorePopup, storage, inFlight, lastOp >>

-----------------------------------------------------------------------------
(* Program constants *)

DEFAULT_TIMER_MINUTES == 100
HALFTIME_SCORE_TARGET == 8
CAP == 15
DefaultHalftimeDuration == 55
DefaultHalftimeBreakDuration == 7
DefaultTimeoutDuration == 75
DefaultTimeoutsTotal == 2
DefaultTimeoutsPerHalf == 0
SecondsTimerDefaultSeconds == 75
Day == 24 * 60 * 60

(* Bounds of the exploration *)

MaxLog == 3
MaxLongScores == 9
MaxLongExtras == 4
MaxStaleLog == 2
MaxClockLog == 2
MaxPlayLog == 4
MaxInFlight == 1
MaxShortTicks == 1
MaxEdits == 1
MaxHalfScores == 9
MaxHalfExtras == 3
MaxHalfTimeoutScore == 0
MaxAttemptLog == 4
CapWindow == 1
MaxCapOver == 2
MaxCapExtras == 3
MaxExportLog == 3
MaxPending == 2

-----------------------------------------------------------------------------
(* Small helpers *)

\* "const v = value; body": the value is computed once and named
Let(v, Body(_)) == Body(v)

Min(a, b) == IF a < b THEN a ELSE b
Max(a, b) == IF a > b THEN a ELSE b

Null == << >>
Some(x) == << x >>

SeqFilter(s, Test(_)) ==
  LET F[i \in 0..Len(s)] ==
        IF i = 0 THEN << >>
        ELSE IF Test(s[i]) THEN Append(F[i-1], s[i]) ELSE F[i-1]
  IN F[Len(s)]

SeqCount(s, Test(_)) == Cardinality({i \in 1..Len(s) : Test(s[i])})

RemoveAt(s, i) == SubSeq(s, 1, i-1) \o SubSeq(s, i+1, Len(s))

\* Array.prototype.findIndex(log => log.scoreID === scoreID); 0 when absent
FindIndex(logs, scoreID) ==
  IF \E i \in 1..Len(logs) : logs[i].scoreID = scoreID
  THEN CHOOSE i \in 1..Len(logs) :
         /\ logs[i].scoreID = scoreID
         /\ \A j \in 1..(i-1) : logs[j].scoreID # scoreID
  ELSE 0

-----------------------------------------------------------------------------
(* Log entries *)

getEventTypeLabel(type) ==
  CASE type = "matchstart" -> "Start"
    [] type = "timeout"    -> "TimeOut"
    [] type = "stoppage"   -> "Stoppage"
    [] type = "halftime"   -> "HalfTime"
    [] OTHER               -> "Score"

\* createLogObject (with the overrides recordSpecialEvent passes); GameID,
\* Time and Event are display strings no handler reads back, TeamName is a
\* copy of Team.
createLogObject(w, scoreID, teamLetter, scorer, assist, type, reason) ==
  [ scoreID |-> scoreID,
    Team |-> IF teamLetter = "A" THEN w.teamA
             ELSE IF teamLetter = "B" THEN w.teamB ELSE "",
    TeamLetter |-> teamLetter, Score |-> scorer, Assist |-> assist,
    Type |-> type, EventType |-> getEventTypeLabel(type),
    HalftimeReason |-> reason ]

getLogType(logEntry) == logEntry.Type
isScoreLog(logEntry) == getLogType(logEntry) = "score"
getTeamLetterFromLog(w, logEntry) ==
  IF logEntry.TeamLetter # "" THEN logEntry.TeamLetter
  ELSE IF logEntry.Team = w.teamA THEN "A"
  ELSE IF logEntry.Team = w.teamB THEN "B"
  ELSE ""

\* Date.now().toString() as a rank: a new millisecond gets the next rank,
\* the same millisecond as the handler's previous id gets that id again.
LastId(logs) == IF logs = << >> THEN 0 ELSE logs[Len(logs)].scoreID
DateNowId(w) ==
  IF w.sameMs /\ w.idTaken THEN LastId(w.scoreLogs) ELSE LastId(w.scoreLogs) + 1

\* Ranks stay dense: after a removal every id is replaced by its rank among
\* the ids still in the log.
DenseId(logs, id) ==
  Cardinality({logs[i].scoreID : i \in 1..Len(logs)} \cap (1..id))
DenseLogs(logs) ==
  [i \in 1..Len(logs) |-> [logs[i] EXCEPT !.scoreID = DenseId(logs, @)]]
DenseIds(w) ==
  [w EXCEPT
     !.scoreLogs = DenseLogs(@),
     !.gameState.scoreLogs = DenseLogs(@),
     !.storage.gameState =
        IF @ = << >> THEN @
        ELSE << [@[1] EXCEPT !.scoreLogs = DenseLogs(@)] >>,
     !.table = [i \in 1..Len(w.table) |->
        [w.table[i] EXCEPT !.scoreId = DenseId(w.scoreLogs, @)]],
     !.currentHalftimeEditID = DenseId(w.scoreLogs, @)]

-----------------------------------------------------------------------------
(* Derivation: ABBA label *)

computeAbbaForIndex(abba, index) ==
  IF abba = "NONE" THEN ""
  ELSE LET start == IF abba = "F" THEN "F" ELSE "M"
           other == IF start = "M" THEN "F" ELSE "M"
           adjusted == index - 1
           block == adjusted \div 2
       IN IF index = 0 THEN start
          ELSE IF block % 2 = 0 THEN other ELSE start

-----------------------------------------------------------------------------
(* PersistenceManager / DataManager *)

DefaultGameSettings ==
  [ matchDuration |-> DEFAULT_TIMER_MINUTES,
    halftimeDuration |-> DefaultHalftimeDuration,
    halftimeBreakDuration |-> DefaultHalftimeBreakDuration,
    timeoutDuration |-> DefaultTimeoutDuration,
    timeoutsTotal |-> DefaultTimeoutsTotal,
    timeoutsPerHalf |-> DefaultTimeoutsPerHalf ]

DefaultTimeoutState ==
  [ A |-> [totalRemaining |-> 2, halfRemaining |-> 2],
    B |-> [totalRemaining |-> 2, halfRemaining |-> 2] ]

\* defaultState of loadGameState, also the object built by resetGameState.
\* timestamp is the age of the write (Date.now() at construction: 0).
DefaultGameState ==
  [ teamAScore |-> 0, teamBScore |-> 0, teamAName |-> "", teamBName |-> "",
    matchDuration |-> DEFAULT_TIMER_MINUTES,
    halftimeDuration |-> DefaultHalftimeDuration,
    halftimeBreakDuration |-> DefaultHalftimeBreakDuration,
    timeoutDuration |-> DefaultTimeoutDuration,
    timeoutsTotal |-> DefaultTimeoutsTotal,
    timeoutsPerHalf |-> DefaultTimeoutsPerHalf,
    abbaStart |-> "M", stoppageActive |-> FALSE,
    timeoutState |-> DefaultTimeoutState,
    halftimeReasonResolved |-> "", scoreLogs |-> << >>,
    matchStarted |-> FALSE, timestamp |-> 0 ]

EmptyStorage ==
  [ gameState |-> Null, timerEndTime |-> Null, timerRunning |-> FALSE,
    timerRemainingTime |-> Null ]

\* loadGameState: the stored object, or defaultState when the key is absent
loadGameState(store) ==
  IF store.gameState = Null THEN DefaultGameState ELSE store.gameState[1]

\* DataManager.addScoreLog / removeScoreLog / clearScoreLogs: scoreLogs and
\* gameState.scoreLogs are the same array
dmSetLogs(w, logs) ==
  [w EXCEPT !.scoreLogs = logs, !.gameState.scoreLogs = logs, !.isDirty = TRUE]

addScoreLog(w, logEntry) == dmSetLogs(w, Append(w.scoreLogs, logEntry))

usesPerHalfTimeouts(w) == w.gameSettings.timeoutsPerHalf > 0

getTimeoutStateSnapshot(w) ==
  LET perHalfEnabled == usesPerHalfTimeouts(w)
      makeCopy(teamKey) ==
        [ totalRemaining |-> w.timeoutState[teamKey].totalRemaining,
          halfRemaining |-> IF perHalfEnabled
                            THEN w.timeoutState[teamKey].halfRemaining
                            ELSE w.timeoutState[teamKey].totalRemaining ]
  IN [A |-> makeCopy("A"), B |-> makeCopy("B")]

\* an auto-save that writes nothing
autoSaveSkipped(w) == w

\* autoSave: updateGameState(currentState) then saveCurrentState, which
\* writes the whole gameState under one key (the write is taken to succeed)
autoSave(w) ==
  IF w.isRestoring THEN w
  ELSE LET currentState ==
             [ teamAScore |-> w.teamAScore, teamBScore |-> w.teamBScore,
               teamAName |-> w.teamA, teamBName |-> w.teamB,
               matchDuration |-> w.gameSettings.matchDuration,
               halftimeDuration |-> w.gameSettings.halftimeDuration,
               halftimeBreakDuration |-> w.gameSettings.halftimeBreakDuration,
               timeoutDuration |-> w.gameSettings.timeoutDuration,
               timeoutsTotal |-> w.gameSettings.timeoutsTotal,
               timeoutsPerHalf |-> w.gameSettings.timeoutsPerHalf,
               abbaStart |-> w.abbaStart,
               stoppageActive |-> w.gameStoppageActive,
               timeoutState |-> getTimeoutStateSnapshot(w),
               halftimeReasonResolved |-> w.halftimeReasonResolved,
               scoreLogs |-> w.scoreLogs,
               matchStarted |-> w.matchStarted, timestamp |-> 0 ]
       IN [w EXCEPT !.gameState = currentState, !.isDirty = FALSE,
                    !.storage.gameState = Some(currentState)]

-----------------------------------------------------------------------------
(* TimerManager (primary clock) *)

\* saveTimerState
saveTimerState(w) ==
  [w EXCEPT !.storage.timerEndTime = w.timerManager.endTime,
            !.storage.timerRunning = w.timerManager.isRunning,
            !.storage.timerRemainingTime = w.timerManager.remainingTimeMs]

\* getRemainingSeconds() * 1000, in seconds
getRemainingSeconds(tm) ==
  IF tm.isRunning /\ tm.endTime # Null THEN tm.endTime[1]
  ELSE IF tm.remainingTimeMs # Null THEN tm.remainingTimeMs[1]
  ELSE 0

\* maybeTriggerHalftimeByTime; total = <<t>> when called from a tick
maybeTriggerHalftimeByTime(w, total) ==
  LET thresholdMinutes ==
        Max(0, w.gameSettings.matchDuration - w.gameSettings.halftimeDuration)
      thresholdMs == thresholdMinutes * 60
      remainingMs == IF total # Null THEN Max(0, total[1])
                     ELSE Max(0, getRemainingSeconds(w.timerManager))
  IN IF ~w.matchStarted \/ w.halftimeTriggered THEN w
     ELSE IF thresholdMinutes <= 0 THEN w
     ELSE IF w.halftimeAutoSuppressed /\ remainingMs <= thresholdMs THEN w
     ELSE LET w1 == [w EXCEPT !.halftimeAutoSuppressed = FALSE]
          IN IF remainingMs <= thresholdMs
             THEN [w1 EXCEPT !.halftimePendingReason = "clock"]
             ELSE w1

handleMainTimerTick(w, total) == maybeTriggerHalftimeByTime(w, Some(total))

\* TimerManager.start; the tick callback is registered at the end of the
\* ScorekeeperApp constructor (w.tickCallback)
\* TimerManager.start counting down from the configured duration
tmStartFromDefault(w) ==
  LET tm == w.timerManager IN
  IF tm.isRunning THEN w
  ELSE LET end2 == Some(tm.defaultMinutes * 60)
           w1 == [w EXCEPT !.timerManager =
                     [tm EXCEPT !.endTime = end2, !.remainingTimeMs = Null,
                                !.isRunning = TRUE, !.timerInterval = TRUE]]
       IN Let(saveTimerState(w1), LAMBDA w2 :
            IF w2.tickCallback THEN handleMainTimerTick(w2, end2[1]) ELSE w2)

tmStart(w) ==
  LET tm == w.timerManager IN
  IF tm.isRunning THEN w
  ELSE LET end1 == IF tm.remainingTimeMs # Null THEN tm.remainingTimeMs
                   ELSE tm.endTime
           end2 == IF end1 = Null THEN Some(tm.defaultMinutes * 60) ELSE end1
           w1 == [w EXCEPT !.timerManager =
                     [tm EXCEPT !.endTime = end2, !.remainingTimeMs = Null,
                                !.isRunning = TRUE, !.timerInterval = TRUE]]
       IN Let(saveTimerState(w1), LAMBDA w2 :
            IF w2.tickCallback THEN handleMainTimerTick(w2, end2[1]) ELSE w2)

\* TimerManager.stop
tmStop(w) ==
  LET tm == w.timerManager IN
  IF ~tm.isRunning THEN w
  ELSE saveTimerState(
         [w EXCEPT !.timerManager =
            [tm EXCEPT !.remainingTimeMs =
                          IF tm.endTime # Null THEN Some(Max(0, tm.endTime[1]))
                          ELSE tm.remainingTimeMs,
                       !.isRunning = FALSE, !.endTime = Null,
                       !.timerInterval = FALSE]])

\* TimerManager.reset(minutes)
tmReset(w, minutes) ==
  LET w1 == tmStop(w)
  IN saveTimerState(
       [w1 EXCEPT !.timerManager.remainingTimeMs = Some(minutes * 60),
                  !.timerManager.endTime = Null])

tmToggle(w) == IF w.timerManager.isRunning THEN tmStop(w) ELSE tmStart(w)

\* the setInterval callback installed by start()
tmIntervalTick(w) ==
  LET total == w.timerManager.endTime[1]
  IN Let(IF w.tickCallback THEN handleMainTimerTick(w, total) ELSE w,
         LAMBDA w1 :
           IF total <= 0 /\ w1.timerManager.isRunning THEN tmStop(w1) ELSE w1)

\* TimerManager constructor + loadTimerState (no tick callback yet)
loadTimerState(w) ==
  LET storedEndTime == w.storage.timerEndTime
      storedIsRunning == w.storage.timerRunning
      storedRemainingTime == w.storage.timerRemainingTime
      tm0 == [ isRunning |-> storedIsRunning,
               endTime |-> storedEndTime,
               \* if (storedRemainingTime): 0 is falsy
               remainingTimeMs |->
                 IF storedRemainingTime # Null /\ storedRemainingTime[1] # 0
                 THEN storedRemainingTime ELSE Null,
               defaultMinutes |-> DEFAULT_TIMER_MINUTES,
               timerInterval |-> FALSE ]
      w0 == [w EXCEPT !.timerManager = tm0]
  IN IF tm0.isRunning /\ tm0.endTime # Null
     THEN IF tm0.endTime[1] <= 0 THEN tmStop(w0)
          ELSE tmStart(w0)          \* returns at once: isRunning is set
     ELSE IF tm0.remainingTimeMs # Null
     THEN [w0 EXCEPT !.timerManager.endTime = Null]   \* setRemainingTime
     ELSE tmReset(w0, tm0.defaultMinutes)

-----------------------------------------------------------------------------
(* SecondsTimerManager (secondary clock) *)

NewSecondsTimer ==
  [ isRunning |-> FALSE, endTime |-> Null, remainingTimeMs |-> Null,
    defaultSeconds |-> SecondsTimerDefaultSeconds ]

\* start: #countdownTimeSec holds the value applyGameSettingsToUI wrote,
\* which is also defaultSeconds
secStart(w) ==
  LET st == w.secondsTimer IN
  IF st.isRunning THEN w
  ELSE LET rem == IF st.remainingTimeMs = Null THEN Some(st.defaultSeconds)
                  ELSE st.remainingTimeMs
       IN [w EXCEPT !.secondsTimer =
             [st EXCEPT !.remainingTimeMs = rem, !.endTime = rem,
                        !.isRunning = TRUE]]

secStop(w) ==
  LET st == w.secondsTimer IN
  IF ~st.isRunning THEN w
  ELSE [w EXCEPT !.secondsTimer =
          [st EXCEPT !.isRunning = FALSE,
                     !.remainingTimeMs = Some(Max(0, st.endTime[1])),
                     !.endTime = Null]]

\* a reset that stops the clock and keeps what it had left
secResetKeepsTime(w, seconds) == secStop(w)

secReset(w, seconds) ==
  Let(secStop(w), LAMBDA w1 :
    LET secs == Max(1, IF seconds = 0 THEN w1.secondsTimer.defaultSeconds
                       ELSE seconds)
    IN [w1 EXCEPT !.secondsTimer.remainingTimeMs = Some(secs)])

secToggle(w) == IF w.secondsTimer.isRunning THEN secStop(w) ELSE secStart(w)

\* tick, the 200 ms interval callback
secTick(w) ==
  IF w.secondsTimer.endTime[1] <= 0
  THEN [secStop(w) EXCEPT !.secondsTimer.remainingTimeMs = Some(0)]
  ELSE w

-----------------------------------------------------------------------------
(* The scoring table (#scoringTableBody).  A row keeps its data-score-id,   *)
(* the type it was created for (which fixes its edit button) and the text   *)
(* of its ABBA cell.  The sequence is oldest row first; the DOM shows it    *)
(* newest first.                                                            *)

getScoreLog(w, scoreID) ==
  LET i == FindIndex(w.scoreLogs, scoreID)
  IN IF i = 0 THEN Null ELSE Some(w.scoreLogs[i])

\* getAbbaIndexForLog: <<>> for null
getAbbaIndexForLog(w, logEntry) ==
  IF ~isScoreLog(logEntry) THEN Null
  ELSE LET hits == {i \in 1..Len(w.scoreLogs) :
                      /\ isScoreLog(w.scoreLogs[i])
                      /\ w.scoreLogs[i].scoreID = logEntry.scoreID}
       IN IF hits = {} THEN Null
          ELSE LET first == CHOOSE i \in hits : \A j \in hits : i <= j
               IN Some(SeqCount(SubSeq(w.scoreLogs, 1, first - 1), isScoreLog))

\* createScoreRow: <<>> when no row is made
createScoreRow(w, logEntry, abbaIndex) ==
  LET type == getLogType(logEntry)
      abba == IF type = "score" /\ abbaIndex # Null
              THEN computeAbbaForIndex(w.abbaStart, abbaIndex[1]) ELSE ""
  IN IF type \in {"timeout", "halftime", "stoppage", "score"}
     THEN Some([scoreId |-> logEntry.scoreID, type |-> type, abba |-> abba])
     ELSE Null

addScoreToTable(w, logEntry) ==
  [w EXCEPT !.table =
     w.table \o createScoreRow(w, logEntry, getAbbaIndexForLog(w, logEntry))]

\* updateAbbaColumn: walks the rows oldest first, looking each row's log up
\* by the row's id; clearAbbaCells when the column is off
updateAbbaColumn(w) ==
  LET rows == w.table
      isScoreRow(i) == LET l == getScoreLog(w, rows[i].scoreId)
                       IN l # Null /\ isScoreLog(l[1])
      scoringIndex(i) == Cardinality({j \in 1..(i-1) : isScoreRow(j)})
  IN [w EXCEPT !.table =
        [i \in 1..Len(rows) |->
           [rows[i] EXCEPT !.abba =
              IF w.abbaStart # "NONE" /\ isScoreRow(i)
              THEN computeAbbaForIndex(w.abbaStart, scoringIndex(i))
              ELSE ""]]]

\* the row "tr[data-score-id=...]" that querySelector finds: the first in
\* document order, which is the newest
RemoveRow(w, scoreID) ==
  LET hits == {i \in 1..Len(w.table) : w.table[i].scoreId = scoreID}
  IN IF hits = {} THEN w
     ELSE LET last == CHOOSE i \in hits : \A j \in hits : i >= j
          IN [w EXCEPT !.table = RemoveAt(w.table, last)]

-----------------------------------------------------------------------------
(* Timeout balances *)

\* clampCount of initializeTimeoutState; value is <<>> when undefined
clampCount(value, fallback, max) ==
  IF value = Null \/ value[1] < 0 THEN fallback
  ELSE Min(value[1], Max(0, max))

\* initializeTimeoutState(savedState); savedState is <<>> when absent
initializeTimeoutState(w, savedState) ==
  LET defaultTotal == Max(0, w.gameSettings.timeoutsTotal)
      perHalfEnabled == usesPerHalfTimeouts(w)
      defaultHalf == IF perHalfEnabled
                     THEN Min(w.gameSettings.timeoutsPerHalf, defaultTotal)
                     ELSE defaultTotal
      createState(teamKey) ==
        LET totalRemaining ==
              clampCount(IF savedState = Null THEN Null
                         ELSE Some(savedState[1][teamKey].totalRemaining),
                         defaultTotal, defaultTotal)
            halfRemaining ==
              IF perHalfEnabled
              THEN clampCount(IF savedState = Null THEN Null
                              ELSE Some(savedState[1][teamKey].halfRemaining),
                              defaultHalf, defaultHalf)
              ELSE totalRemaining
        IN [totalRemaining |-> totalRemaining, halfRemaining |-> halfRemaining]
  IN [w EXCEPT !.timeoutState = [A |-> createState("A"), B |-> createState("B")]]

\* normalize of adjustTimeoutCountsForEdit
normalize(value, max) ==
  LET bounded == Max(0, value)
  IN IF max <= 0 THEN bounded ELSE Min(bounded, max)

adjustTimeoutCountsForEdit(w, oldTeam, newTeam) ==
  LET perHalfEnabled == usesPerHalfTimeouts(w)
      shift(ws, team, delta) ==
        IF team = "" THEN ws
        ELSE LET state == ws.timeoutState[team]
                 total == normalize(state.totalRemaining + delta,
                                    ws.gameSettings.timeoutsTotal)
                 half == IF perHalfEnabled
                         THEN normalize(state.halfRemaining + delta,
                                        ws.gameSettings.timeoutsPerHalf)
                         ELSE total
             IN [ws EXCEPT !.timeoutState[team] =
                   [totalRemaining |-> total, halfRemaining |-> half]]
  IN shift(shift(w, oldTeam, 1), newTeam, -1)

-----------------------------------------------------------------------------
(* Special events, halftime, score cap *)

\* recordSpecialEvent(type, teamLetter, {HalftimeReason: reason})
recordSpecialEvent(w, type, teamLetter, reason) ==
  LET scoreID == DateNowId(w)
      logEntry == createLogObject(w, scoreID, teamLetter, "", "", type, reason)
      w1 == [addScoreLog(w, logEntry) EXCEPT !.idTaken = TRUE]
      w2 == IF type # "matchstart"
            THEN updateAbbaColumn(addScoreToTable(w1, logEntry))
            ELSE w1
  IN autoSave(w2)

updateHalftimeTracking(w) ==
  Let(SeqFilter(w.scoreLogs, LAMBDA log : log.Type = "halftime"),
      LAMBDA halftimeLogs :
  LET has == halftimeLogs # << >>
      latest == halftimeLogs[Len(halftimeLogs)]
  IN [w EXCEPT
        !.halftimeTriggered = has,
        !.currentHalftimeEditID = IF has THEN latest.scoreID ELSE 0,
        !.halftimePendingReason = IF has THEN "" ELSE @,
        !.halftimeReasonResolved =
           IF ~has THEN ""
           ELSE IF @ = ""
                THEN (IF latest.HalftimeReason # "" THEN latest.HalftimeReason
                      ELSE "restored")
                ELSE @])

\* handleHalftime({silent, reason}); from the button, reason is "manual"
handleHalftime(w, reason) ==
  IF w.halftimeTriggered THEN w
  ELSE IF ~w.matchStarted THEN w
  ELSE
    LET defaultHalf == Min(w.gameSettings.timeoutsPerHalf,
                           w.gameSettings.timeoutsTotal)
        half(teamKey) ==
          IF usesPerHalfTimeouts(w)
          THEN Min(defaultHalf, w.timeoutState[teamKey].totalRemaining)
          ELSE w.timeoutState[teamKey].totalRemaining
        w1 == [w EXCEPT !.timeoutState.A.halfRemaining = half("A"),
                        !.timeoutState.B.halfRemaining = half("B")]
        halftimeBreakMinutes == IF w.gameSettings.halftimeBreakDuration # 0
                                THEN w.gameSettings.halftimeBreakDuration
                                ELSE DefaultHalftimeBreakDuration
        halftimeBreakSeconds == Max(1, halftimeBreakMinutes * 60)
        w2 == secStart(secReset(w1, halftimeBreakSeconds))
    IN Let([w2 EXCEPT !.halftimeReasonResolved = reason], LAMBDA w3 :
         LET halftimeID == DateNowId(w3)
             w4 == recordSpecialEvent(w3, "halftime", "", reason)
             w5 == [w4 EXCEPT !.halftimeTriggered = TRUE,
                              !.currentHalftimeEditID = halftimeID]
             w6 == updateHalftimeTracking(w5)
         IN autoSave([w6 EXCEPT !.halftimePendingReason = "",
                                !.halftimeAutoSuppressed = FALSE]))

\* maybeTriggerHalftimeByScore firing only above the target
maybeTriggerHalftimeByScoreAbove(w) ==
  IF ~w.matchStarted \/ w.halftimeTriggered THEN w
  ELSE IF w.halftimeReasonResolved # "" THEN w
  ELSE LET leadingScore == Max(w.teamAScore, w.teamBScore) IN
       IF w.halftimeAutoSuppressed /\ leadingScore >= HALFTIME_SCORE_TARGET
       THEN w
       ELSE LET w1 == [w EXCEPT !.halftimeAutoSuppressed = FALSE]
            IN IF leadingScore > HALFTIME_SCORE_TARGET
               THEN handleHalftime(w1, "score")
               ELSE w1

maybeTriggerHalftimeByScore(w) ==
  IF ~w.matchStarted \/ w.halftimeTriggered THEN w
  ELSE IF w.halftimeReasonResolved # "" THEN w
  ELSE LET leadingScore == Max(w.teamAScore, w.teamBScore) IN
       IF w.halftimeAutoSuppressed /\ leadingScore >= HALFTIME_SCORE_TARGET
       THEN w
       ELSE LET w1 == [w EXCEPT !.halftimeAutoSuppressed = FALSE]
            IN IF leadingScore >= HALFTIME_SCORE_TARGET
               THEN handleHalftime(w1, "score")
               ELSE w1

\* attemptPendingHalftime leaving a pending halftime pending
attemptPendingHalftimeIdle(w) == w

attemptPendingHalftime(w) ==
  IF ~w.matchStarted \/ w.halftimeTriggered THEN w
  ELSE IF w.halftimeReasonResolved # "" THEN w
  ELSE IF w.halftimePendingReason # "clock" THEN w
  ELSE handleHalftime(w, w.halftimePendingReason)

checkForScoreCap(w) ==
  LET reached == (w.teamAScore >= CAP) \/ (w.teamBScore >= CAP)
  IN IF reached /\ ~w.hardCapReached
     THEN secStop(tmStop([w EXCEPT !.hardCapReached = TRUE]))
     ELSE IF ~reached /\ w.hardCapReached
     THEN [w EXCEPT !.hardCapReached = FALSE]
     ELSE w

\* the common body of rebuildTableAndCounters and rebuildScoreTable: counters
\* and rows recomputed from the given logs, then the derived flags
RebuildFrom(w, logs) ==
  LET scoreOf(team) ==
        SeqCount(logs, LAMBDA l : isScoreLog(l) /\ getTeamLetterFromLog(w, l) = team)
  IN Let([w EXCEPT !.teamAScore = scoreOf("A"), !.teamBScore = scoreOf("B")],
         LAMBDA w0 :
     LET abbaIndex(i) ==
           IF isScoreLog(logs[i])
           THEN Some(SeqCount(SubSeq(logs, 1, i - 1), isScoreLog)) ELSE Null
         Rows[i \in 0..Len(logs)] ==
           IF i = 0 THEN << >>
           ELSE Rows[i-1] \o createScoreRow(w0, logs[i], abbaIndex(i))
         w1 == updateAbbaColumn([w0 EXCEPT !.table = Rows[Len(logs)]])
     IN maybeTriggerHalftimeByScore(
          updateHalftimeTracking(checkForScoreCap(w1))))

rebuildTableAndCounters(w) == RebuildFrom(w, w.scoreLogs)

rebuildScoreTable(w, logs) == RebuildFrom(w, logs)

-----------------------------------------------------------------------------
(* Handlers of the ScorekeeperApp *)

\* applyGameSettingsToUI: also writes #countdownTime and #countdownTimeSec,
\* which therefore always read back as matchDuration and timeoutDuration
applyGameSettingsToUI(w) ==
  [w EXCEPT !.timerManager.defaultMinutes = w.gameSettings.matchDuration,
            !.secondsTimer.defaultSeconds = w.gameSettings.timeoutDuration]

handleTeamChange(w, teamID, name) ==
  autoSave(IF teamID = "teamA" THEN [w EXCEPT !.teamA = name]
           ELSE [w EXCEPT !.teamB = name])

startMatch(w) ==
  IF w.matchStarted THEN w
  ELSE IF w.teamA = "" \/ w.teamB = "" THEN w
  ELSE IF w.gameStoppageActive THEN w
  ELSE
    LET configuredMinutes == w.gameSettings.matchDuration   \* #countdownTime
        startMinutes == IF configuredMinutes > 0 THEN configuredMinutes
                        ELSE w.gameSettings.matchDuration
        w1 == tmReset([w EXCEPT !.timerManager.defaultMinutes = startMinutes],
                      startMinutes)
        w2 == [w1 EXCEPT !.halftimeTriggered = FALSE,
                         !.currentHalftimeEditID = 0,
                         !.halftimePendingReason = "",
                         !.halftimeAutoSuppressed = FALSE,
                         !.halftimeReasonResolved = "",
                         !.hardCapReached = FALSE,
                         !.matchStarted = TRUE]
    IN autoSave(recordSpecialEvent(tmStart(w2), "matchstart", "", ""))

\* addNewScore with the counter of side A bumped whichever side scored
addNewScoreCountsForA(w, team, scorer, assist) ==
  Let([w EXCEPT !.teamAScore = @ + 1], LAMBDA w1 :
  Let(createLogObject(w1, DateNowId(w1), team, scorer, assist, "score", ""),
      LAMBDA logEntry :
    LET w2 == [addScoreLog(w1, logEntry) EXCEPT !.idTaken = TRUE]
        w3 == checkForScoreCap(w2)
        w4 == updateAbbaColumn(addScoreToTable(w3, logEntry))
    IN attemptPendingHalftime(maybeTriggerHalftimeByScore(w4))))

addNewScore(w, team, scorer, assist) ==
  Let(IF team = "A" THEN [w EXCEPT !.teamAScore = @ + 1]
      ELSE [w EXCEPT !.teamBScore = @ + 1], LAMBDA w1 :
  Let(createLogObject(w1, DateNowId(w1), team, scorer, assist, "score", ""),
      LAMBDA logEntry :
    LET w2 == [addScoreLog(w1, logEntry) EXCEPT !.idTaken = TRUE]
        w3 == checkForScoreCap(w2)
        w4 == updateAbbaColumn(addScoreToTable(w3, logEntry))
    IN attemptPendingHalftime(maybeTriggerHalftimeByScore(w4))))

\* openPopup(team), then handleSaveScore with the chosen scorer and assist
\* (the popup is modal)
\* openPopup without the check of the score cap
openPopupAndSaveAtCap(w, team, scorer, assist) ==
  IF ~w.matchStarted THEN w
  ELSE IF scorer = "" \/ assist = "" THEN w
  ELSE addNewScore(w, team, scorer, assist)

openPopupAndSave(w, team, scorer, assist) ==
  IF ~w.matchStarted THEN w
  ELSE IF w.hardCapReached THEN w
  ELSE IF scorer = "" \/ assist = "" THEN w
  ELSE addNewScore(w, team, scorer, assist)

\* openPopup(team): the score form comes on show for a new score
openPopup(w, team) ==
  IF ~w.matchStarted THEN w
  ELSE IF w.hardCapReached THEN w
  ELSE [w EXCEPT !.scorePopup = team]

\* closePopup
closePopup(w) == [w EXCEPT !.scorePopup = ""]

\* handleSaveScore of the form on show for a new score (currentEditID null)
handleSaveScore(w, scorer, assist) ==
  IF w.scorePopup = "" \/ scorer = "" \/ assist = "" THEN w
  ELSE closePopup(addNewScore(w, w.scorePopup, scorer, assist))

\* DataManager.updateScoreLog(scoreID, {Score, Assist})
updateExistingScore(w, currentEditID, scorer, assist) ==
  LET index == FindIndex(w.scoreLogs, currentEditID)
  IN IF index = 0 THEN w
     ELSE dmSetLogs(w, [w.scoreLogs EXCEPT ![index].Score = scorer,
                                           ![index].Assist = assist])

\* editScore(scoreID), then handleSaveScore in edit mode
editScoreAndSave(w, scoreID, scorer, assist) ==
  IF getScoreLog(w, scoreID) = Null THEN w
  ELSE IF scorer = "" \/ assist = "" THEN w
  ELSE updateExistingScore(w, scoreID, scorer, assist)

\* editScore(scoreID), then handleDeleteScore
handleDeleteScore(w, scoreID) ==
  LET index == FindIndex(w.scoreLogs, scoreID)
  IN IF index = 0 THEN w
     ELSE LET w1 == dmSetLogs(w, RemoveAt(w.scoreLogs, index))
          IN autoSave(rebuildTableAndCounters(RemoveRow(w1, scoreID)))

\* handleTimeout without the two balance checks
handleTimeoutUnchecked(w, team) ==
  IF ~w.matchStarted THEN w
  ELSE IF w.gameStoppageActive THEN w
  ELSE
    LET perHalfEnabled == usesPerHalfTimeouts(w)
        state == w.timeoutState[team]
        total == Max(0, state.totalRemaining - 1)
        half == IF perHalfEnabled THEN Max(0, state.halfRemaining - 1)
                ELSE total
        w1 == [w EXCEPT !.timeoutState[team] =
                 [totalRemaining |-> total, halfRemaining |-> half]]
        defaultSeconds == IF w.gameSettings.timeoutDuration # 0
                          THEN w.gameSettings.timeoutDuration
                          ELSE w.secondsTimer.defaultSeconds
    IN recordSpecialEvent(secStart(secReset(w1, defaultSeconds)),
                          "timeout", team, "")

handleTimeout(w, team) ==
  IF ~w.matchStarted THEN w
  ELSE IF w.gameStoppageActive THEN w
  ELSE
    LET perHalfEnabled == usesPerHalfTimeouts(w)
        state == w.timeoutState[team]
    IN IF state.totalRemaining <= 0 THEN w
       ELSE IF perHalfEnabled /\ state.halfRemaining <= 0 THEN w
       ELSE
         LET total == Max(0, state.totalRemaining - 1)
             half == IF perHalfEnabled THEN Max(0, state.halfRemaining - 1)
                     ELSE total
             w1 == [w EXCEPT !.timeoutState[team] =
                      [totalRemaining |-> total, halfRemaining |-> half]]
             defaultSeconds == IF w.gameSettings.timeoutDuration # 0
                               THEN w.gameSettings.timeoutDuration
                               ELSE w.secondsTimer.defaultSeconds
         IN recordSpecialEvent(secStart(secReset(w1, defaultSeconds)),
                               "timeout", team, "")

\* openTimeoutEditPopup(scoreID), the choice of a team in #timeoutEditTeam,
\* then handleTimeoutEditSave
handleTimeoutEditSave(w, scoreID, teamLetter) ==
  LET existingLog == getScoreLog(w, scoreID)
      teamName == IF teamLetter = "A" THEN w.teamA ELSE w.teamB
  IN IF existingLog = Null \/ existingLog[1].Type # "timeout" THEN w
     ELSE IF teamLetter = "" THEN w
     ELSE IF teamName = "" THEN w
     ELSE
       LET oldTeamLetter == existingLog[1].TeamLetter
           index == FindIndex(w.scoreLogs, scoreID)
           w1 == dmSetLogs(w, [w.scoreLogs EXCEPT ![index].TeamLetter = teamLetter,
                                                  ![index].Team = teamName])
           w2 == IF oldTeamLetter # teamLetter
                 THEN adjustTimeoutCountsForEdit(w1, oldTeamLetter, teamLetter)
                 ELSE w1
       IN autoSave(rebuildTableAndCounters(w2))

\* openHalftimeEditPopup(scoreID), then handleHalftimeDelete
handleHalftimeDelete(w, scoreID) ==
  LET logEntry == getScoreLog(w, scoreID)
  IN IF logEntry = Null \/ logEntry[1].Type # "halftime" THEN w
     ELSE
       LET index == FindIndex(w.scoreLogs, scoreID)
           w1 == dmSetLogs(w, RemoveAt(w.scoreLogs, index))
           w2 == [w1 EXCEPT !.halftimeAutoSuppressed = TRUE,
                            !.halftimePendingReason = "",
                            !.halftimeTriggered = FALSE,
                            !.halftimeReasonResolved = "",
                            !.currentHalftimeEditID = 0]
           w3 == secReset(RemoveRow(w2, scoreID),
                          IF w.gameSettings.timeoutDuration # 0
                          THEN w.gameSettings.timeoutDuration
                          ELSE w.secondsTimer.defaultSeconds)
       IN autoSave(rebuildTableAndCounters(w3))

pauseAllTimers(w) ==
  secStop(tmStop(
    [w EXCEPT !.stoppagePausedMainTimer = w.timerManager.isRunning,
              !.stoppagePausedSecondsTimer = w.secondsTimer.isRunning]))

handleStoppageToggle(w) ==
  Let([w EXCEPT !.gameStoppageActive = ~w.gameStoppageActive], LAMBDA w1 :
    IF w1.gameStoppageActive
    THEN autoSave(recordSpecialEvent(pauseAllTimers(w1), "stoppage", "", ""))
    ELSE
      LET shouldRestartMain == w1.matchStarted /\ ~w1.hardCapReached
      IN Let(IF shouldRestartMain /\ ~w1.timerManager.isRunning
             THEN tmStart(w1) ELSE w1, LAMBDA w2 :
           LET w3 == IF ~w2.secondsTimer.isRunning
                        /\ w2.stoppagePausedSecondsTimer
                     THEN secStart(w2) ELSE w2
           IN autoSave([w3 EXCEPT !.stoppagePausedMainTimer = FALSE,
                                  !.stoppagePausedSecondsTimer = FALSE])))

handleTimerToggle(w) ==
  IF w.gameStoppageActive /\ ~w.timerManager.isRunning THEN w
  ELSE IF w.hardCapReached /\ ~w.timerManager.isRunning THEN w
  ELSE tmToggle(w)

handleTimerReset(w) ==
  LET newTime == IF w.gameSettings.matchDuration # 0      \* #countdownTime
                 THEN w.gameSettings.matchDuration ELSE DEFAULT_TIMER_MINUTES
  IN tmReset(w, newTime)

handleSecTimerToggle(w) ==
  IF w.gameStoppageActive /\ ~w.secondsTimer.isRunning THEN w
  ELSE IF w.hardCapReached /\ ~w.secondsTimer.isRunning THEN w
  ELSE secToggle(w)

handleSecTimerReset(w) ==
  LET secs == IF w.gameSettings.timeoutDuration # 0       \* #countdownTimeSec
              THEN w.gameSettings.timeoutDuration
              ELSE w.secondsTimer.defaultSeconds
  IN secReset(w, secs)

handleAbbaChange(w, newValue, shouldAutoSave) ==
  LET w1 == [w EXCEPT !.abbaStart =
               IF newValue = "F" \/ newValue = "NONE" THEN newValue ELSE "M"]
      w2 == updateAbbaColumn(w1)      \* clearAbbaCells when "NONE"
  IN IF shouldAutoSave THEN autoSave(w2) ELSE w2

\* clampNumber of handleSetupSave (the fields hold whole numbers)
clampNumber(value, min, max) == Max(min, Min(max, value))

\* handleSetupSave; form is the content of the setup popup's fields
handleSetupSave(w, form) ==
  LET newMatchDuration == clampNumber(form.matchDuration, 1, 300)
      newHalftimeDuration == clampNumber(form.halftimeDuration, 1, newMatchDuration)
      newTimeoutDuration == clampNumber(form.timeoutDuration, 1, 3600)
      newTimeoutsTotal == clampNumber(form.timeoutsTotal, 0, 10)
      newTimeoutsPerHalf ==
        Min(clampNumber(form.timeoutsPerHalf, 0, 10), newTimeoutsTotal)
      newHalftimeBreakDuration == clampNumber(form.halftimeBreakDuration, 1, 120)
      w1 == [w EXCEPT !.gameSettings =
               [ matchDuration |-> newMatchDuration,
                 halftimeDuration |-> newHalftimeDuration,
                 halftimeBreakDuration |-> newHalftimeBreakDuration,
                 timeoutDuration |-> newTimeoutDuration,
                 timeoutsTotal |-> newTimeoutsTotal,
                 timeoutsPerHalf |-> newTimeoutsPerHalf ]]
      w2 == applyGameSettingsToUI(initializeTimeoutState(w1, Null))
      w3 == autoSave(handleAbbaChange(w2, form.abba, FALSE))
  IN maybeTriggerHalftimeByTime(maybeTriggerHalftimeByScore(w3), Null)

\* handleSubmitScore up to its await: the payload is built from the log as it
\* is now
SubmitPayload(w) ==
  [i \in 1..Len(w.scoreLogs) |->
     [ Event |-> w.scoreLogs[i].EventType, Team |-> w.scoreLogs[i].Team,
       Score |-> w.scoreLogs[i].Score, Assist |-> w.scoreLogs[i].Assist ]]

\* handleSubmitScore after its await, without initializeTimeoutState
handleSubmitScoreResumeKeepsTimeouts(w) ==
  LET w1 == rebuildTableAndCounters(dmSetLogs(w, << >>))
      w2 == [w1 EXCEPT !.currentHalftimeEditID = 0,
                       !.halftimeTriggered = FALSE,
                       !.halftimePendingReason = "",
                       !.halftimeAutoSuppressed = FALSE,
                       !.halftimeReasonResolved = ""]
  IN Let([w2 EXCEPT
                       !.matchStarted = FALSE,
                       !.gameStoppageActive = FALSE,
                       !.hardCapReached = FALSE], LAMBDA w3 :
     Let([w3.gameState EXCEPT
                       !.teamAScore = 0, !.teamBScore = 0, !.scoreLogs = << >>,
                       !.stoppageActive = FALSE,
                       !.timeoutState = getTimeoutStateSnapshot(w3),
                       !.matchStarted = w3.matchStarted, !.timestamp = 0],
         LAMBDA updated :
       [w3 EXCEPT !.gameState = updated, !.isDirty = FALSE,
                  !.storage.gameState = Some(updated)]))

\* handleSubmitScore after its await (whatever the sink answered)
handleSubmitScoreResume(w) ==
  LET w1 == rebuildTableAndCounters(dmSetLogs(w, << >>))
      w2 == [w1 EXCEPT !.currentHalftimeEditID = 0,
                       !.halftimeTriggered = FALSE,
                       !.halftimePendingReason = "",
                       !.halftimeAutoSuppressed = FALSE,
                       !.halftimeReasonResolved = ""]
  IN Let([initializeTimeoutState(w2, Null) EXCEPT
                       !.matchStarted = FALSE,
                       !.gameStoppageActive = FALSE,
                       !.hardCapReached = FALSE], LAMBDA w3 :
     Let([w3.gameState EXCEPT
                       !.teamAScore = 0, !.teamBScore = 0, !.scoreLogs = << >>,
                       !.stoppageActive = FALSE,
                       !.timeoutState = getTimeoutStateSnapshot(w3),
                       !.matchStarted = w3.matchStarted, !.timestamp = 0],
         LAMBDA updated :
       [w3 EXCEPT !.gameState = updated, !.isDirty = FALSE,
                  !.storage.gameState = Some(updated)]))

\* handleBeforeUnload
handleBeforeUnload(w) == autoSave(w)

-----------------------------------------------------------------------------
(* Launch: constructor, init, checkAndRestoreState, restoreGameState *)

restoreGameState(w) ==
  LET gs == w.gameState
      hasHalftimeLog == \E i \in 1..Len(gs.scoreLogs) :
                           gs.scoreLogs[i].Type = "halftime"
      w1 == [w EXCEPT !.teamAScore = gs.teamAScore,
                      !.teamBScore = gs.teamBScore,
                      !.matchStarted = gs.matchStarted,
                      !.halftimeAutoSuppressed = FALSE,
                      !.halftimeReasonResolved =
                         IF hasHalftimeLog THEN gs.halftimeReasonResolved ELSE "",
                      !.teamA = IF gs.teamAName # "" THEN gs.teamAName ELSE @,
                      !.teamB = IF gs.teamBName # "" THEN gs.teamBName ELSE @]
      w2 == IF Len(gs.scoreLogs) > 0 THEN rebuildScoreTable(w1, gs.scoreLogs)
            ELSE w1
      w3 == applyGameSettingsToUI(
              [w2 EXCEPT !.gameSettings =
                 [ matchDuration |-> gs.matchDuration,
                   halftimeDuration |-> gs.halftimeDuration,
                   halftimeBreakDuration |-> gs.halftimeBreakDuration,
                   timeoutDuration |-> gs.timeoutDuration,
                   timeoutsTotal |-> gs.timeoutsTotal,
                   timeoutsPerHalf |-> gs.timeoutsPerHalf ]])
      w4 == [w3 EXCEPT !.abbaStart =
                         IF gs.abbaStart = "F" \/ gs.abbaStart = "NONE"
                         THEN gs.abbaStart ELSE "M",
                       !.gameStoppageActive = gs.stoppageActive]
      w5 == Let(w4, LAMBDA v :
                  IF v.gameStoppageActive THEN pauseAllTimers(v) ELSE v)
      w6 == updateHalftimeTracking(checkForScoreCap(updateAbbaColumn(w5)))
      w7 == [w6 EXCEPT !.halftimePendingReason = ""]
  IN maybeTriggerHalftimeByTime(maybeTriggerHalftimeByScore(w7), Null)

\* the else branch of checkAndRestoreState: DataManager.resetGameState and
\* the explicit resets
DeclineRestore(w) ==
  LET w1 == [w EXCEPT !.gameState = DefaultGameState, !.scoreLogs = << >>,
                      !.isDirty = TRUE,
                      !.gameSettings = DefaultGameSettings]
  IN [applyGameSettingsToUI(w1) EXCEPT
        !.abbaStart = "M",
        !.table = [i \in 1..Len(@) |-> [@[i] EXCEPT !.abba = ""]],
        !.gameStoppageActive = FALSE,
        !.matchStarted = FALSE,
        !.hardCapReached = FALSE]

\* checkAndRestoreState; accept is the user's answer to confirm()
checkAndRestoreState(w, accept) ==
  IF w.gameState.timestamp < Day
  THEN LET w1 == [w EXCEPT !.isRestoring = TRUE, !.prompted = TRUE]
           w2 == IF accept THEN restoreGameState(w1) ELSE DeclineRestore(w1)
       IN [w2 EXCEPT !.isRestoring = FALSE, !.accepted = accept]
  ELSE w

\* new ScorekeeperApp() over the given localStorage, then init(): the
\* constructors of DataManager, TimerManager and SecondsTimerManager, the
\* field defaults, checkAndRestoreState and the rest of init.  The page is
\* new, so the table is empty and no team is selected.
Launch(store, accept) ==
  LET loaded == loadGameState(store)
      w0 == [ teamAScore |-> 0, teamBScore |-> 0, matchStarted |-> FALSE,
              gameStoppageActive |-> FALSE, hardCapReached |-> FALSE,
              halftimeTriggered |-> FALSE, halftimeAutoSuppressed |-> FALSE,
              halftimePendingReason |-> "", halftimeReasonResolved |-> "",
              currentHalftimeEditID |-> 0,
              stoppagePausedMainTimer |-> FALSE,
              stoppagePausedSecondsTimer |-> FALSE,
              abbaStart |-> "M", gameSettings |-> DefaultGameSettings,
              timeoutState |-> DefaultTimeoutState,
              scoreLogs |-> loaded.scoreLogs, gameState |-> loaded,
              isDirty |-> FALSE,
              timerManager |-> [ isRunning |-> FALSE, endTime |-> Null,
                                 remainingTimeMs |-> Null,
                                 defaultMinutes |-> DEFAULT_TIMER_MINUTES,
                                 timerInterval |-> FALSE ],
              secondsTimer |-> NewSecondsTimer,
              table |-> << >>, teamA |-> "", teamB |-> "",
              scorePopup |-> "", storage |-> store,
              isRestoring |-> FALSE, tickCallback |-> FALSE,
              sameMs |-> FALSE, idTaken |-> FALSE,
              prompted |-> FALSE, accepted |-> FALSE ]
      w2 == [applyGameSettingsToUI(loadTimerState(w0)) EXCEPT
                !.tickCallback = TRUE]
  IN Let(checkAndRestoreState(w2, accept), LAMBDA w3 :
       applyGameSettingsToUI(
         initializeTimeoutState(w3, Some(w3.gameState.timeoutState))))

-----------------------------------------------------------------------------
(* The passage of time *)

\* d seconds pass while the page is closed: deadlines come nearer, the
\* snapshot grows older (ages saturate at Day, passed deadlines at 0)
AgeStorage(store, d) ==
  [store EXCEPT
     !.gameState = IF @ = Null THEN Null
                   ELSE Some([@[1] EXCEPT !.timestamp = Min(Day, @ + d)]),
     !.timerEndTime = IF @ = Null THEN Null ELSE Some(Max(0, @[1] - d))]

AgeClock(clock, d) ==
  IF clock.endTime = Null THEN clock
  ELSE [clock EXCEPT !.endTime = Some(Max(0, @[1] - d))]

\* d seconds pass while the page is open: the interval callbacks of the
\* running clocks fire, and so does the auto-save interval
TimePasses(w, d) ==
  Let([w EXCEPT !.timerManager = AgeClock(@, d),
                !.secondsTimer = AgeClock(@, d)], LAMBDA w1 :
  Let(IF w1.timerManager.timerInterval THEN tmIntervalTick(w1) ELSE w1,
      LAMBDA w2 :
    autoSave(IF w2.secondsTimer.isRunning THEN secTick(w2) ELSE w2)))

-----------------------------------------------------------------------------
(* State machine *)

\* Inputs
Teams == {"A", "B"}
TeamNames == [teamA |-> {"Alpha"}, teamB |-> {"Beta"}]
Scorers == {"p1", "p2"}
Assists == {"N/A"}
ShortStep == 45
LongStep == DefaultHalftimeDuration * 60
AwayTimes == {0, Day}
SetupForms ==
  { [ matchDuration |-> 100, halftimeDuration |-> 55,
      halftimeBreakDuration |-> 7, timeoutDuration |-> 75,
      timeoutsTotal |-> f[1], timeoutsPerHalf |-> f[2], abba |-> f[3] ] :
    f \in { <<2, 0, "M">>, <<1, 1, "NONE">> } }

NoClocks == [timerManager |-> << >>, secondsTimer |-> << >>]

Op(name) ==
  [ name |-> name, side |-> "", prompted |-> FALSE, accepted |-> FALSE,
    snap |-> "", prev |-> NoClocks, sink |-> "", export |-> Null,
    undoneAtTarget |-> FALSE, undoneAtThreshold |-> FALSE ]

\* a handler entered for one side
OpFor(name, team) == [Op(name) EXCEPT !.side = team]

\* the variables as a world; no handler is running
World ==
  [ teamAScore |-> teamAScore, teamBScore |-> teamBScore,
    matchStarted |-> matchStarted, gameStoppageActive |-> gameStoppageActive,
    hardCapReached |-> hardCapReached, halftimeTriggered |-> halftimeTriggered,
    halftimeAutoSuppressed |-> halftimeAutoSuppressed,
    halftimePendingReason |-> halftimePendingReason,
    halftimeReasonResolved |-> halftimeReasonResolved,
    currentHalftimeEditID |-> currentHalftimeEditID,
    stoppagePausedMainTimer |-> stoppagePausedMainTimer,
    stoppagePausedSecondsTimer |-> stoppagePausedSecondsTimer,
    abbaStart |-> abbaStart, gameSettings |-> gameSettings,
    timeoutState |-> timeoutState, scoreLogs |-> scoreLogs,
    gameState |-> gameState, isDirty |-> isDirty,
    timerManager |-> timerManager, secondsTimer |-> secondsTimer,
    table |-> table, teamA |-> teamA, teamB |-> teamB,
    scorePopup |-> scorePopup, storage |-> storage,
    isRestoring |-> FALSE, tickCallback |-> TRUE,
    sameMs |-> FALSE, idTaken |-> FALSE,
    prompted |-> FALSE, accepted |-> FALSE ]

\* History of a deleted halftime entry.  UndoneAtTarget: an entry was deleted
\* in this page session and since then the match has had no halftime entry
\* and a leading score at the halftime score or above.  UndoneAtThreshold:
\* the same with the primary clock at the clock threshold or below.
HalftimeEntryDeleted(w, op) ==
  /\ op.name = "DeleteHalftime"
  /\ SeqCount(scoreLogs, LAMBDA l : l.Type = "halftime") > 0
  /\ SeqCount(w.scoreLogs, LAMBDA l : l.Type = "halftime") = 0

UndoneAtTarget(w, op) ==
  /\ op.name \notin {"Launch", "Reload"}
  /\ w.matchStarted
  /\ SeqCount(w.scoreLogs, LAMBDA l : l.Type = "halftime") = 0
  /\ Max(w.teamAScore, w.teamBScore) >= HALFTIME_SCORE_TARGET
  /\ (HalftimeEntryDeleted(w, op) \/ lastOp.undoneAtTarget)

UndoneAtThreshold(w, op) ==
  /\ op.name \notin {"Launch", "Reload"}
  /\ w.matchStarted
  /\ SeqCount(w.scoreLogs, LAMBDA l : l.Type = "halftime") = 0
  /\ w.gameSettings.matchDuration > w.gameSettings.halftimeDuration
  /\ getRemainingSeconds(w.timerManager) <=
       (w.gameSettings.matchDuration - w.gameSettings.halftimeDuration) * 60
  /\ (HalftimeEntryDeleted(w, op) \/ lastOp.undoneAtThreshold)

\* the world a handler leaves behind becomes the next state
Become(w, op, flight) ==
  /\ teamAScore' = w.teamAScore
  /\ teamBScore' = w.teamBScore
  /\ matchStarted' = w.matchStarted
  /\ gameStoppageActive' = w.gameStoppageActive
  /\ hardCapReached' = w.hardCapReached
  /\ halftimeTriggered' = w.halftimeTriggered
  /\ halftimeAutoSuppressed' = w.halftimeAutoSuppressed
  /\ halftimePendingReason' = w.halftimePendingReason
  /\ halftimeReasonResolved' = w.halftimeReasonResolved
  /\ currentHalftimeEditID' = w.currentHalftimeEditID
  /\ stoppagePausedMainTimer' = w.stoppagePausedMainTimer
  /\ stoppagePausedSecondsTimer' = w.stoppagePausedSecondsTimer
  /\ abbaStart' = w.abbaStart
  /\ gameSettings' = w.gameSettings
  /\ timeoutState' = w.timeoutState
  /\ scoreLogs' = w.scoreLogs
  /\ gameState' = w.gameState
  /\ isDirty' = w.isDirty
  /\ timerManager' = w.timerManager
  /\ secondsTimer' = w.secondsTimer
  /\ table' = w.table
  /\ teamA' = w.teamA
  /\ teamB' = w.teamB
  /\ scorePopup' = w.scorePopup
  /\ storage' = w.storage
  /\ inFlight' = flight
  /\ lastOp' = [op EXCEPT !.undoneAtTarget = UndoneAtTarget(w, op),
                          !.undoneAtThreshold = UndoneAtThreshold(w, op)]

Apply(w0, op, flight) == Become(DenseIds(w0), op, flight)

\* the outcome of a launch over the storage it found
LaunchOp(name, store, w, clocks) ==
  [ name |-> name, side |-> "", prompted |-> w.prompted,
    accepted |-> w.accepted,
    snap |-> IF store.gameState = Null THEN "none"
             ELSE IF store.gameState[1].timestamp < Day THEN "fresh"
             ELSE "expired",
    prev |-> clocks, sink |-> "", export |-> Null,
    undoneAtTarget |-> FALSE, undoneAtThreshold |-> FALSE ]

\* first launch on a device: nothing in localStorage
Begin(w) ==
    /\ teamAScore = w.teamAScore
    /\ teamBScore = w.teamBScore
    /\ matchStarted = w.matchStarted
    /\ gameStoppageActive = w.gameStoppageActive
    /\ hardCapReached = w.hardCapReached
    /\ halftimeTriggered = w.halftimeTriggered
    /\ halftimeAutoSuppressed = w.halftimeAutoSuppressed
    /\ halftimePendingReason = w.halftimePendingReason
    /\ halftimeReasonResolved = w.halftimeReasonResolved
    /\ currentHalftimeEditID = w.currentHalftimeEditID
    /\ stoppagePausedMainTimer = w.stoppagePausedMainTimer
    /\ stoppagePausedSecondsTimer = w.stoppagePausedSecondsTimer
    /\ abbaStart = w.abbaStart
    /\ gameSettings = w.gameSettings
    /\ timeoutState = w.timeoutState
    /\ scoreLogs = w.scoreLogs
    /\ gameState = w.gameState
    /\ isDirty = w.isDirty
    /\ timerManager = w.timerManager
    /\ secondsTimer = w.secondsTimer
    /\ table = w.table
    /\ teamA = w.teamA
    /\ teamB = w.teamB
    /\ scorePopup = w.scorePopup
    /\ storage = w.storage
    /\ inFlight = << >>
    /\ lastOp = LaunchOp("Launch", EmptyStorage, w, NoClocks)

Init == \E accept \in BOOLEAN : Begin(DenseIds(Launch(EmptyStorage, accept)))

IdRange == 1..(MaxLog + 1)

\* ids of the rows carrying a given edit button
RowIds(type) == {table[i].scoreId : i \in {j \in 1..Len(table) : table[j].type = type}}

SelectTeam(teamID, name) ==
  /\ name # World[teamID]
  /\ Apply(handleTeamChange(World, teamID, name), Op("SelectTeam"), inFlight)

StartMatch ==
  /\ ~matchStarted
  /\ teamA # "" /\ teamB # ""
  /\ ~gameStoppageActive
  /\ Apply(startMatch(World), Op("StartMatch"), inFlight)

AddScore(team, scorer, assist, sameMs) ==
  /\ matchStarted
  /\ ~hardCapReached
  /\ Apply(openPopupAndSave([World EXCEPT !.sameMs = sameMs], team, scorer, assist),
           Op("AddScore"), inFlight)

EditScore(scoreID, scorer, assist) ==
  /\ scoreID \in RowIds("score")
  /\ Apply(editScoreAndSave(World, scoreID, scorer, assist),
           Op("EditScore"), inFlight)

DeleteScore(scoreID) ==
  /\ scoreID \in RowIds("score")
  /\ Apply(handleDeleteScore(World, scoreID), Op("DeleteScore"), inFlight)

CallTimeout(team) ==
  /\ matchStarted
  /\ ~gameStoppageActive
  /\ timeoutState[team].totalRemaining > 0
  /\ usesPerHalfTimeouts(World) => timeoutState[team].halfRemaining > 0
  /\ Apply(handleTimeout(World, team), Op("CallTimeout"), inFlight)

ReassignTimeout(scoreID, teamLetter) ==
  /\ scoreID \in RowIds("timeout")
  /\ getScoreLog(World, scoreID)[1].Type = "timeout"
  /\ (IF teamLetter = "A" THEN teamA ELSE teamB) # ""
  /\ Apply(handleTimeoutEditSave(World, scoreID, teamLetter),
           Op("ReassignTimeout"), inFlight)

DeclareHalftime ==
  /\ ~halftimeTriggered
  /\ matchStarted
  /\ Apply(handleHalftime(World, "manual"), Op("DeclareHalftime"), inFlight)

DeleteHalftime(scoreID) ==
  /\ scoreID \in RowIds("halftime")
  /\ getScoreLog(World, scoreID)[1].Type = "halftime"
  /\ Apply(handleHalftimeDelete(World, scoreID), Op("DeleteHalftime"), inFlight)

\* The stoppage button sits in the time-options popup, which openTimePopup
\* opens only once the match has started.
ToggleStoppage ==
  /\ matchStarted
  /\ Apply(handleStoppageToggle(World), Op("ToggleStoppage"), inFlight)

TimerToggle ==
  /\ ~(gameStoppageActive /\ ~timerManager.isRunning)
  /\ ~(hardCapReached /\ ~timerManager.isRunning)
  /\ Apply(handleTimerToggle(World), Op("TimerToggle"), inFlight)

TimerReset ==
  Apply(handleTimerReset(World), Op("TimerReset"), inFlight)

SecTimerToggle ==
  /\ ~(gameStoppageActive /\ ~secondsTimer.isRunning)
  /\ ~(hardCapReached /\ ~secondsTimer.isRunning)
  /\ Apply(handleSecTimerToggle(World), Op("SecTimerToggle"), inFlight)

SecTimerReset ==
  Apply(handleSecTimerReset(World), Op("SecTimerReset"), inFlight)

SetupSave(form) ==
  Apply(handleSetupSave(World, form), Op("SetupSave"), inFlight)

Tick(d) ==
  Apply(TimePasses(World, d), Op("Tick"), inFlight)

\* The score form in two steps: the form is opened, and later its button is
\* pressed (or it is closed); handlers of timers and of a settled submission
\* may run in between
OpenPopup(team) ==
  /\ scorePopup = ""
  /\ Apply(openPopup(World, team), OpFor("OpenPopup", team), inFlight)

SaveScore(scorer, assist) ==
  /\ scorePopup # ""
  /\ Apply(handleSaveScore(World, scorer, assist),
           OpFor("SaveScore", scorePopup), inFlight)

ClosePopup ==
  /\ scorePopup # ""
  /\ Apply(closePopup(World), Op("ClosePopup"), inFlight)

SubmitBegin ==
  /\ Len(scoreLogs) # 0
  /\ Len(inFlight) < MaxInFlight
  /\ Apply(World, Op("SubmitBegin"), Append(inFlight, SubmitPayload(World)))

\* Submit pressed while an earlier submission is still waiting for the sink:
\* the click listener calls handleSubmitScore again, which sends its payload
SubmitAgain ==
  /\ Len(scoreLogs) # 0
  /\ inFlight # << >>
  /\ Len(inFlight) < MaxPending
  /\ Apply(World, Op("SubmitAgain"), Append(inFlight, SubmitPayload(World)))

\* the file a handler hands to the browser for download
downloadNothing(rows) == Null

\* Utils.downloadTextFile(filename, csv): the rows of the file
downloadTextFile(rows) == Some(rows)

\* ApiManager.submitScores settles: fetch resolved ("sent") or threw
\* ("failed"); the handler goes on after its try block either way
SinkOutcomes == {"sent", "failed"}

SubmitFinish(outcome) ==
  /\ inFlight # << >>
  /\ Apply(handleSubmitScoreResume(World),
           [Op("SubmitFinish") EXCEPT !.sink = outcome,
                                      !.export = downloadTextFile(Head(inFlight))],
           Tail(inFlight))

\* The buttons pressed whatever the state: the handler makes its own checks
\* and returns without effect when one fails
PressStartMatch ==
  Apply(startMatch(World), Op("StartMatch"), inFlight)

PressAddScore(team, scorer, assist, sameMs) ==
  Apply(openPopupAndSave([World EXCEPT !.sameMs = sameMs], team, scorer, assist),
        OpFor("AddScore", team), inFlight)

PressTimeout(team) ==
  Apply(handleTimeout(World, team), OpFor("CallTimeout", team), inFlight)

PressHalftime ==
  Apply(handleHalftime(World, "manual"), Op("DeclareHalftime"), inFlight)

PressTimerToggle ==
  Apply(handleTimerToggle(World), Op("TimerToggle"), inFlight)

PressSubmit ==
  IF Len(scoreLogs) = 0
  THEN Apply(World, Op("SubmitBegin"), inFlight)
  ELSE /\ Len(inFlight) < MaxInFlight
       /\ Apply(World, Op("SubmitBegin"), Append(inFlight, SubmitPayload(World)))

\* the page is closed (beforeunload), stays closed for a while, and is
\* opened again; a submission still in flight dies with the page
Relaunch(left, store, w, away) ==
  Apply(w, LaunchOp("Reload", store, w,
                    [ timerManager |-> AgeClock(left.timerManager, away),
                      secondsTimer |-> AgeClock(left.secondsTimer, away) ]),
        << >>)

Reload(away, accept) ==
  \E left \in {handleBeforeUnload(World)} :
    \E store \in {AgeStorage(left.storage, away)} :
      Relaunch(left, store, Launch(store, accept), away)

\* Exploration bounds: the log stops growing at MaxLog events, at most
\* MaxEdits scores carry an edited scorer, teams are chosen before the match,
\* and a countdown is watched in short steps only near its start value
LogHasRoom == Len(scoreLogs) < MaxLog
EditAllowed(scorer) ==
  scorer = "p1" \/
  SeqCount(scoreLogs, LAMBDA l : l.Score \notin {"", "p1"}) < MaxEdits
ShortTickAllowed ==
  /\ timerManager.isRunning /\ timerManager.endTime # Null =>
       timerManager.endTime[1] >
         timerManager.defaultMinutes * 60 - MaxShortTicks * ShortStep
  /\ secondsTimer.isRunning
  /\ \E k \in 0..(MaxShortTicks - 1) :
       secondsTimer.endTime[1] + k * ShortStep \in
         {gameSettings.timeoutDuration, gameSettings.halftimeBreakDuration * 60}

\* Match play: the operator's actions on the log, the setup form and page
\* reloads; no time passes while the page is open
Next ==
  \/ \E name \in TeamNames.teamA : ~matchStarted /\ SelectTeam("teamA", name)
  \/ \E name \in TeamNames.teamB : ~matchStarted /\ SelectTeam("teamB", name)
  \/ LogHasRoom /\ StartMatch
  \/ \E team \in Teams, assist \in Assists, sameMs \in BOOLEAN :
       LogHasRoom /\ AddScore(team, "p1", assist, sameMs)
  \/ \E scoreID \in IdRange, scorer \in Scorers, assist \in Assists :
       EditAllowed(scorer) /\ EditScore(scoreID, scorer, assist)
  \/ \E scoreID \in IdRange : DeleteScore(scoreID)
  \/ \E team \in Teams : LogHasRoom /\ CallTimeout(team)
  \/ \E scoreID \in IdRange, team \in Teams : ReassignTimeout(scoreID, team)
  \/ LogHasRoom /\ DeclareHalftime
  \/ \E scoreID \in IdRange : DeleteHalftime(scoreID)
  \/ (gameStoppageActive \/ LogHasRoom) /\ ToggleStoppage
  \/ \E form \in SetupForms : SetupSave(form)
  \/ \E away \in AwayTimes, accept \in BOOLEAN : Reload(away, accept)

Spec == Init /\ [][Next]_vars

\* Play only: the teams are chosen and the match is run on one page, which
\* is never reloaded
PlayLogHasRoom == Len(scoreLogs) < MaxPlayLog
PlayIdRange == 1..(MaxPlayLog + 1)

NextPlay ==
  \/ \E name \in TeamNames.teamA : ~matchStarted /\ SelectTeam("teamA", name)
  \/ \E name \in TeamNames.teamB : ~matchStarted /\ SelectTeam("teamB", name)
  \/ PlayLogHasRoom /\ StartMatch
  \/ \E team \in Teams, assist \in Assists, sameMs \in BOOLEAN :
       PlayLogHasRoom /\ AddScore(team, "p1", assist, sameMs)
  \/ \E scoreID \in PlayIdRange, scorer \in Scorers, assist \in Assists :
       EditAllowed(scorer) /\ EditScore(scoreID, scorer, assist)
  \/ \E scoreID \in PlayIdRange : DeleteScore(scoreID)
  \/ \E team \in Teams : PlayLogHasRoom /\ CallTimeout(team)
  \/ \E scoreID \in PlayIdRange, team \in Teams : ReassignTimeout(scoreID, team)
  \/ PlayLogHasRoom /\ DeclareHalftime
  \/ \E scoreID \in PlayIdRange : DeleteHalftime(scoreID)
  \/ (gameStoppageActive \/ PlayLogHasRoom) /\ ToggleStoppage

SpecPlay == Init /\ [][NextPlay]_vars

\* A long match: one side scores up to MaxLongScores goals, with halftime
\* declared by hand or by the score, undone, and page reloads; the page
\* stays closed for a day only while the log has at most MaxStaleLog events
LongHasRoom ==
  /\ SeqCount(scoreLogs, isScoreLog) < MaxLongScores
  /\ Len(scoreLogs) < MaxLongScores + MaxLongExtras
LongExtraHasRoom ==
  /\ Len(scoreLogs) - SeqCount(scoreLogs, isScoreLog) < MaxLongExtras
  /\ Len(scoreLogs) < MaxLongScores + MaxLongExtras
LongAwayAllowed(away) == away = 0 \/ Len(scoreLogs) <= MaxStaleLog

NextLong ==
  \/ \E name \in TeamNames.teamA : ~matchStarted /\ SelectTeam("teamA", name)
  \/ \E name \in TeamNames.teamB : ~matchStarted /\ SelectTeam("teamB", name)
  \/ LongExtraHasRoom /\ StartMatch
  \/ \E assist \in Assists, sameMs \in BOOLEAN :
       LongHasRoom /\ AddScore("A", "p1", assist, sameMs)
  \/ \E scoreID \in 1..(MaxLongScores + MaxLongExtras) : DeleteScore(scoreID)
  \/ LongExtraHasRoom /\ DeclareHalftime
  \/ \E scoreID \in 1..(MaxLongScores + MaxLongExtras) : DeleteHalftime(scoreID)
  \/ \E away \in AwayTimes, accept \in BOOLEAN :
       LongAwayAllowed(away) /\ Reload(away, accept)

SpecLong == Init /\ [][NextLong]_vars

\* The clocks: the operator's clock buttons, the events that drive the
\* clocks, time passing while the page is open, and page reloads
ClockLogHasRoom == Len(scoreLogs) < MaxClockLog
LongTickAllowed ==
  /\ timerManager.isRunning
  /\ timerManager.endTime # Null
  /\ timerManager.endTime[1] > 0

NextClock ==
  \/ \E name \in TeamNames.teamA : ~matchStarted /\ SelectTeam("teamA", name)
  \/ \E name \in TeamNames.teamB : ~matchStarted /\ SelectTeam("teamB", name)
  \/ ClockLogHasRoom /\ StartMatch
  \/ \E team \in Teams : ClockLogHasRoom /\ CallTimeout(team)
  \/ ClockLogHasRoom /\ DeclareHalftime
  \/ (gameStoppageActive \/ ClockLogHasRoom) /\ ToggleStoppage
  \/ TimerToggle
  \/ TimerReset
  \/ SecTimerToggle
  \/ SecTimerReset
  \/ ShortTickAllowed /\ Tick(ShortStep)
  \/ LongTickAllowed /\ Tick(LongStep)
  \/ \E away \in AwayTimes, accept \in BOOLEAN : Reload(away, accept)

SpecClock == Init /\ [][NextClock]_vars

\* Stoppage and the clocks: as above on one page that stays open, without
\* the long tick
NextStoppage ==
  \/ \E name \in TeamNames.teamA : ~matchStarted /\ SelectTeam("teamA", name)
  \/ \E name \in TeamNames.teamB : ~matchStarted /\ SelectTeam("teamB", name)
  \/ ClockLogHasRoom /\ StartMatch
  \/ \E team \in Teams : ClockLogHasRoom /\ CallTimeout(team)
  \/ ClockLogHasRoom /\ DeclareHalftime
  \/ (gameStoppageActive \/ ClockLogHasRoom) /\ ToggleStoppage
  \/ TimerToggle
  \/ TimerReset
  \/ SecTimerToggle
  \/ SecTimerReset
  \/ ShortTickAllowed /\ Tick(ShortStep)

SpecStoppage == Init /\ [][NextStoppage]_vars

\* Submission: a short match is played and sent to the remote sink, whose
\* answer arrives while the operator goes on
NextSubmit ==
  \/ \E name \in TeamNames.teamA : ~matchStarted /\ SelectTeam("teamA", name)
  \/ \E name \in TeamNames.teamB : ~matchStarted /\ SelectTeam("teamB", name)
  \/ LogHasRoom /\ StartMatch
  \/ \E team \in Teams, assist \in Assists :
       LogHasRoom /\ AddScore(team, "p1", assist, FALSE)
  \/ \E team \in Teams : LogHasRoom /\ CallTimeout(team)
  \/ SubmitBegin
  \/ \E outcome \in SinkOutcomes : SubmitFinish(outcome)
  \/ \E accept \in BOOLEAN : Reload(0, accept)

SpecSubmit == Init /\ [][NextSubmit]_vars

\* Submission on a page that stays open: the request to the sink settles
\* (fetch resolves or rejects), so the handler's continuation runs
NextSubmitOpen ==
  \/ \E name \in TeamNames.teamA : ~matchStarted /\ SelectTeam("teamA", name)
  \/ \E name \in TeamNames.teamB : ~matchStarted /\ SelectTeam("teamB", name)
  \/ LogHasRoom /\ StartMatch
  \/ \E team \in Teams, assist \in Assists :
       LogHasRoom /\ AddScore(team, "p1", assist, FALSE)
  \/ \E team \in Teams : LogHasRoom /\ CallTimeout(team)
  \/ SubmitBegin
  \/ \E outcome \in SinkOutcomes : SubmitFinish(outcome)

\* Weak fairness of SubmitFinish, WF_vars(\E outcome : SubmitFinish(outcome)),
\* spelled out as []<>~ENABLED \/ []<><<step>>: the step is enabled exactly
\* while a submission is in flight, and it is the only step that leaves
\* SubmitFinish as the handler that ran last.
SinkSettles ==
  \/ []<>(inFlight = << >>)
  \/ []<><<lastOp'.name = "SubmitFinish">>_vars

SpecSubmitFair == Init /\ [][NextSubmitOpen]_vars /\ SinkSettles

\* The score form and a submission: the form is opened and saved in two
\* steps while a submission to the remote sink may be waiting for its answer
NextForm ==
  \/ \E name \in TeamNames.teamA :
       ~matchStarted /\ scorePopup = "" /\ SelectTeam("teamA", name)
  \/ \E name \in TeamNames.teamB :
       ~matchStarted /\ scorePopup = "" /\ SelectTeam("teamB", name)
  \/ scorePopup = "" /\ LogHasRoom /\ StartMatch
  \/ \E team \in Teams : LogHasRoom /\ OpenPopup(team)
  \/ \E assist \in Assists : SaveScore("p1", assist)
  \/ ClosePopup
  \/ scorePopup = "" /\ SubmitBegin
  \/ \E outcome \in SinkOutcomes : SubmitFinish(outcome)

SpecForm == Init /\ [][NextForm]_vars

\* Submission pressed more than once: up to MaxPending requests wait for the
\* sink at the same time and settle one after the other
NextResubmit ==
  \/ \E name \in TeamNames.teamA : ~matchStarted /\ SelectTeam("teamA", name)
  \/ \E name \in TeamNames.teamB : ~matchStarted /\ SelectTeam("teamB", name)
  \/ LogHasRoom /\ StartMatch
  \/ \E team \in Teams, assist \in Assists :
       LogHasRoom /\ AddScore(team, "p1", assist, FALSE)
  \/ SubmitBegin
  \/ SubmitAgain
  \/ \E outcome \in SinkOutcomes : SubmitFinish(outcome)

SpecResubmit == Init /\ [][NextResubmit]_vars

\* Halftime: one side scores up to MaxHalfScores goals while the clock runs
\* down in long steps, with per-half timeout limits set up before the match,
\* timeouts up to the goal number MaxHalfTimeoutScore, and halftime declared
\* by hand, by the score or by the clock and undone
HalfForms ==
  { [ matchDuration |-> 100, halftimeDuration |-> 55,
      halftimeBreakDuration |-> 7, timeoutDuration |-> 75,
      timeoutsTotal |-> 2, timeoutsPerHalf |-> 1, abba |-> "M" ] }
HalfHasRoom == SeqCount(scoreLogs, isScoreLog) < MaxHalfScores
HalfExtraHasRoom ==
  Len(scoreLogs) - SeqCount(scoreLogs, isScoreLog) < MaxHalfExtras
HalfTimeoutAllowed ==
  SeqCount(scoreLogs, isScoreLog) <= MaxHalfTimeoutScore
HalfIdRange == 1..(MaxHalfScores + MaxHalfExtras)

NextHalf ==
  \/ \E name \in TeamNames.teamA : ~matchStarted /\ SelectTeam("teamA", name)
  \/ \E name \in TeamNames.teamB : ~matchStarted /\ SelectTeam("teamB", name)
  \/ \E form \in HalfForms : ~matchStarted /\ SetupSave(form)
  \/ StartMatch
  \/ \E assist \in Assists :
       HalfHasRoom /\ AddScore("A", "p1", assist, FALSE)
  \/ \E team \in Teams :
       HalfExtraHasRoom /\ HalfTimeoutAllowed /\ CallTimeout(team)
  \/ HalfExtraHasRoom /\ DeclareHalftime
  \/ \E scoreID \in HalfIdRange : DeleteHalftime(scoreID)
  \/ LongTickAllowed /\ Tick(LongStep)

SpecHalf == Init /\ [][NextHalf]_vars

\* Attempts: every button is pressed whether or not its action is legal, in
\* matches whose log holds at most MaxAttemptLog events; the submit button
\* is pressed on an empty log
NextAttempt ==
  \/ \E name \in TeamNames.teamA : ~matchStarted /\ SelectTeam("teamA", name)
  \/ \E name \in TeamNames.teamB : ~matchStarted /\ SelectTeam("teamB", name)
  \/ \E form \in HalfForms : ~matchStarted /\ SetupSave(form)
  \/ PressStartMatch /\ Len(scoreLogs') <= MaxAttemptLog
  \/ \E team \in Teams, assist \in Assists :
       PressAddScore(team, "p1", assist, FALSE) /\ Len(scoreLogs') <= MaxAttemptLog
  \/ \E team \in Teams : PressTimeout(team) /\ Len(scoreLogs') <= MaxAttemptLog
  \/ PressHalftime /\ Len(scoreLogs') <= MaxAttemptLog
  \/ ToggleStoppage /\ Len(scoreLogs') <= MaxAttemptLog
  \/ Len(scoreLogs) = 0 /\ PressSubmit

SpecAttempt == Init /\ [][NextAttempt]_vars

\* The score cap: side A scores goal after goal; while the log holds fewer
\* than CAP - CapWindow goals nothing else happens.  From there on (and
\* before the first event) every button is pressed, legal or not, the latest
\* goal is deleted, and the page is reloaded and the match restored.  The
\* log holds at most CAP + MaxCapOver goals and MaxCapExtras other events.
CapQuiet ==
  scoreLogs # << >> /\ SeqCount(scoreLogs, isScoreLog) < CAP - CapWindow
CapKept ==
  /\ SeqCount(scoreLogs', isScoreLog) <= CAP + MaxCapOver
  /\ Len(scoreLogs') - SeqCount(scoreLogs', isScoreLog) <= MaxCapExtras
CapIdRange == 1..(CAP + MaxCapOver + MaxCapExtras)
IsNewestScore(scoreID) ==
  \E i \in 1..Len(scoreLogs) :
    /\ isScoreLog(scoreLogs[i]) /\ scoreLogs[i].scoreID = scoreID
    /\ \A j \in (i+1)..Len(scoreLogs) : ~isScoreLog(scoreLogs[j])

NextCap ==
  \/ \E name \in TeamNames.teamA : ~matchStarted /\ SelectTeam("teamA", name)
  \/ \E name \in TeamNames.teamB : ~matchStarted /\ SelectTeam("teamB", name)
  \/ ~CapQuiet /\ PressStartMatch /\ CapKept
  \/ \E assist \in Assists :
       PressAddScore("A", "p1", assist, FALSE) /\ CapKept
  \/ \E scoreID \in CapIdRange :
       ~CapQuiet /\ IsNewestScore(scoreID) /\ DeleteScore(scoreID)
  \/ ~CapQuiet /\ PressHalftime /\ CapKept
  \/ \E team \in Teams : ~CapQuiet /\ PressTimeout(team) /\ CapKept
  \/ ~CapQuiet /\ ToggleStoppage /\ CapKept
  \/ ~CapQuiet /\ PressTimerToggle
  \/ Len(scoreLogs) = 0 /\ PressSubmit
  \/ \E accept \in BOOLEAN : ~CapQuiet /\ Reload(0, accept)

SpecCap == Init /\ [][NextCap]_vars

\* Over the cap: as above, with the halftime undone, the first tick of the
\* primary clock, and the page closed for a day right after the goal that
\* reached the cap
CapTickAllowed ==
  /\ timerManager.isRunning
  /\ timerManager.endTime = Some(timerManager.defaultMinutes * 60)
CapAwayAllowed(away) ==
  away = 0 \/ (hardCapReached /\ lastOp.name = "AddScore")

NextOver ==
  \/ \E name \in TeamNames.teamA : ~matchStarted /\ SelectTeam("teamA", name)
  \/ \E name \in TeamNames.teamB : ~matchStarted /\ SelectTeam("teamB", name)
  \/ ~CapQuiet /\ PressStartMatch /\ CapKept
  \/ \E assist \in Assists :
       PressAddScore("A", "p1", assist, FALSE) /\ CapKept
  \/ \E scoreID \in CapIdRange :
       ~CapQuiet /\ IsNewestScore(scoreID) /\ DeleteScore(scoreID)
  \/ \E scoreID \in CapIdRange : ~CapQuiet /\ DeleteHalftime(scoreID)
  \/ ~CapQuiet /\ CapTickAllowed /\ Tick(ShortStep)
  \/ \E away \in AwayTimes :
       ~CapQuiet /\ CapAwayAllowed(away) /\ Reload(away, TRUE)

SpecOver == Init /\ [][NextOver]_vars

\* Export: matches of at most MaxExportLog events with timeouts, halftime
\* declared and undone, stoppage and the clock running down; the submit
\* button is pressed in any state, one submission at a time, on a page that
\* stays open
ExportKept == Len(scoreLogs') <= MaxExportLog
ExportIdRange == 1..(MaxExportLog + 1)

NextExport ==
  \/ \E name \in TeamNames.teamA : ~matchStarted /\ SelectTeam("teamA", name)
  \/ \E name \in TeamNames.teamB : ~matchStarted /\ SelectTeam("teamB", name)
  \/ \E form \in HalfForms : ~matchStarted /\ SetupSave(form)
  \/ StartMatch /\ ExportKept
  \/ \E assist \in Assists : AddScore("A", "p1", assist, FALSE) /\ ExportKept
  \/ \E team \in Teams : CallTimeout(team) /\ ExportKept
  \/ DeclareHalftime /\ ExportKept
  \/ \E scoreID \in ExportIdRange : DeleteHalftime(scoreID)
  \/ ToggleStoppage /\ ExportKept
  \/ LongTickAllowed /\ Tick(LongStep)
  \/ inFlight = << >> /\ PressSubmit
  \/ \E outcome \in SinkOutcomes : SubmitFinish(outcome)

SpecExport == Init /\ [][NextExport]_vars

\* Export after an absence: short matches, the submit button pressed in any
\* state, and the page reloaded at once or after a day
NextExportAway ==
  \/ \E name \in TeamNames.teamA : ~matchStarted /\ SelectTeam("teamA", name)
  \/ \E name \in TeamNames.teamB : ~matchStarted /\ SelectTeam("teamB", name)
  \/ StartMatch /\ ExportKept
  \/ \E team \in Teams, assist \in Assists :
       AddScore(team, "p1", assist, FALSE) /\ ExportKept
  \/ inFlight = << >> /\ PressSubmit
  \/ \E outcome \in SinkOutcomes : SubmitFinish(outcome)
  \/ \E away \in AwayTimes, accept \in BOOLEAN :
       inFlight = << >> /\ Reload(away, accept)

SpecExportAway == Init /\ [][NextExportAway]_vars

\* PersistenceManager.startAutoSave: the interval callback, every
\* AUTO_SAVE_INTERVAL milliseconds while the page is open
AutoSaveTick ==
  Apply(autoSave(World), Op("AutoSave"), inFlight)

\* the interval keeps firing: an auto-save that would change something is
\* not put off for ever
AutoSaveRuns ==
  \/ []<>(lastOp.name = "AutoSave" /\ DenseIds(autoSave(World)) = World)
  \/ []<><<lastOp'.name = "AutoSave">>_vars

\* Persistence: short matches with the auto-save interval and the page
\* reloaded at once
NextSave ==
  \/ \E name \in TeamNames.teamA : ~matchStarted /\ SelectTeam("teamA", name)
  \/ \E name \in TeamNames.teamB : ~matchStarted /\ SelectTeam("teamB", name)
  \/ LogHasRoom /\ StartMatch
  \/ \E team \in Teams, assist \in Assists :
       LogHasRoom /\ AddScore(team, "p1", assist, FALSE)
  \/ \E team \in Teams : LogHasRoom /\ CallTimeout(team)
  \/ LogHasRoom /\ ToggleStoppage
  \/ AutoSaveTick
  \/ \E accept \in BOOLEAN : Reload(0, accept)

SpecSave == Init /\ [][NextSave]_vars /\ AutoSaveRuns

\* Halftime undone: one side scores up to MaxHalfScores goals, goals and
\* halftime entries are deleted, the setup form is saved at any time, and
\* the clock is watched for a short step from its start value and in long
\* steps down to zero
NextUndo ==
  \/ \E name \in TeamNames.teamA : ~matchStarted /\ SelectTeam("teamA", name)
  \/ \E name \in TeamNames.teamB : ~matchStarted /\ SelectTeam("teamB", name)
  \/ \E form \in HalfForms : SetupSave(form)
  \/ StartMatch
  \/ \E assist \in Assists :
       HalfHasRoom /\ AddScore("A", "p1", assist, FALSE)
  \/ \E scoreID \in HalfIdRange : DeleteScore(scoreID)
  \/ \E scoreID \in HalfIdRange : DeleteHalftime(scoreID)
  \/ CapTickAllowed /\ Tick(ShortStep)
  \/ LongTickAllowed /\ Tick(LongStep)

SpecUndo == Init /\ [][NextUndo]_vars

\* Timeout balances: short matches with timeouts called and moved to the
\* other side, halftime declared and undone, and the setup form saved at
\* any time with no timeouts, one per half, or two with one per half
TimeoutForms ==
  { [ matchDuration |-> 100, halftimeDuration |-> 55,
      halftimeBreakDuration |-> 7, timeoutDuration |-> 75,
      timeoutsTotal |-> f[1], timeoutsPerHalf |-> f[2], abba |-> "M" ] :
    f \in { <<0, 0>>, <<1, 1>>, <<2, 1>> } }

NextTimeouts ==
  \/ \E name \in TeamNames.teamA : ~matchStarted /\ SelectTeam("teamA", name)
  \/ \E name \in TeamNames.teamB : ~matchStarted /\ SelectTeam("teamB", name)
  \/ LogHasRoom /\ StartMatch
  \/ \E team \in Teams : LogHasRoom /\ CallTimeout(team)
  \/ \E scoreID \in IdRange, team \in Teams : ReassignTimeout(scoreID, team)
  \/ LogHasRoom /\ DeclareHalftime
  \/ \E scoreID \in IdRange : DeleteHalftime(scoreID)
  \/ \E form \in TimeoutForms : SetupSave(form)

SpecTimeouts == Init /\ [][NextTimeouts]_vars

-----------------------------------------------------------------------------
(* Properties *)

\* what the log says, by event type and side
ScoreEvents(logs, team) ==
  SeqCount(logs, LAMBDA l : l.Type = "score" /\ l.TeamLetter = team)
TimeoutEvents(logs, team) ==
  SeqCount(logs, LAMBDA l : l.Type = "timeout" /\ l.TeamLetter = team)
HalftimeEvents(logs) == SeqCount(logs, LAMBDA l : l.Type = "halftime")

PlayOps ==
  { "StartMatch", "AddScore", "EditScore", "DeleteScore", "CallTimeout",
    "ReassignTimeout", "DeclareHalftime", "DeleteHalftime", "ToggleStoppage" }
LaunchOps == { "Launch", "Reload" }

\* C1: after any accepted StartMatch, AddScore, EditScore, DeleteScore,
\* CallTimeout, ReassignTimeout, DeclareHalftime, DeleteHalftime or
\* ToggleStoppage, the scoreboard equals the number of Score events in the
\* log attributed to side A and to side B.
C1_ScoreboardCountsScoreEvents ==
  lastOp.name \in PlayOps =>
    /\ teamAScore = ScoreEvents(scoreLogs, "A")
    /\ teamBScore = ScoreEvents(scoreLogs, "B")

\* a score of each side was added and one of them deleted again
C1_Witness ==
  /\ lastOp.name = "DeleteScore"
  /\ teamAScore + teamBScore = 1
  /\ ScoreEvents(scoreLogs, "A") + ScoreEvents(scoreLogs, "B") = 1

TimeoutSum(balances, logs, team) ==
  balances[team].totalRemaining + TimeoutEvents(logs, team)

\* C2: with the configuration fixed, a CallTimeout, a ReassignTimeout or an
\* event deletion that starts with totalRemaining + (Timeout events of the
\* team) at the configured total leaves it at the configured total, for
\* each team.
C2_TimeoutSumPreserved ==
  [][ ( /\ lastOp'.name \in
             {"CallTimeout", "ReassignTimeout", "DeleteScore", "DeleteHalftime"}
        /\ matchStarted
        /\ gameSettings' = gameSettings
        /\ \A t \in Teams :
             TimeoutSum(timeoutState, scoreLogs, t) = gameSettings.timeoutsTotal )
      => \A t \in Teams :
           TimeoutSum(timeoutState', scoreLogs', t) = gameSettings.timeoutsTotal
    ]_vars

\* the balances obtained by folding a log with a configuration: start from
\* the allotments, subtract one per Timeout event of the team, reset
\* halfRemaining to min(perHalf, totalRemaining) at a Halftime event
\* (perHalf = 0 means "same as total")
FoldTimeouts(logs, settings, team) ==
  LET halfOf(total) == IF settings.timeoutsPerHalf > 0
                       THEN Min(settings.timeoutsPerHalf, total) ELSE total
      F[i \in 0..Len(logs)] ==
        IF i = 0
        THEN [ totalRemaining |-> settings.timeoutsTotal,
               halfRemaining |-> halfOf(settings.timeoutsTotal) ]
        ELSE IF logs[i].Type = "timeout" /\ logs[i].TeamLetter = team
        THEN [ totalRemaining |-> F[i-1].totalRemaining - 1,
               halfRemaining |-> F[i-1].halfRemaining - 1 ]
        ELSE IF logs[i].Type = "halftime"
        THEN [ totalRemaining |-> F[i-1].totalRemaining,
               halfRemaining |-> halfOf(F[i-1].totalRemaining) ]
        ELSE F[i-1]
  IN F[Len(logs)]

\* C3: in every state of a running match each team's (totalRemaining,
\* halfRemaining) is the fold of the current log with the current
\* configuration.
C3_BalancesAreFoldOfLog ==
  matchStarted =>
    \A t \in Teams : timeoutState[t] = FoldTimeouts(scoreLogs, gameSettings, t)

\* C4: in every reachable state the log holds at most one Halftime event.
C4_AtMostOneHalftime == HalftimeEvents(scoreLogs) <= 1

\* the snapshot under the storage key (a launch does not write it)
Snapshot == storage.gameState[1]

\* C5: for a snapshot of a running match with a non-empty log and a
\* scoreboard that counts the log's Score events, reload and accepted
\* restore give the snapshot's log (same events, same order), scoreboard
\* and timeout balances.
C5_RestoreReproducesMatch ==
  ( /\ lastOp.name = "Reload" /\ lastOp.snap = "fresh" /\ lastOp.accepted
    /\ Snapshot.scoreLogs # << >> /\ Snapshot.matchStarted
    /\ Snapshot.teamAScore = ScoreEvents(Snapshot.scoreLogs, "A")
    /\ Snapshot.teamBScore = ScoreEvents(Snapshot.scoreLogs, "B") )
  => /\ scoreLogs = Snapshot.scoreLogs
     /\ teamAScore = Snapshot.teamAScore
     /\ teamBScore = Snapshot.teamBScore
     /\ getTimeoutStateSnapshot(World) = Snapshot.timeoutState

\* what a clock shows: Running with a deadline, or Stopped with a remainder
ClockFace(clock) ==
  [ running |-> clock.isRunning,
    remaining |-> IF clock.isRunning THEN clock.endTime
                  ELSE clock.remainingTimeMs ]

\* C6: after snapshot, reload and accepted restore, the primary and the
\* secondary clock have the Running/Stopped state and the remaining time
\* (the deadline when Running) they had at the snapshot.
C6_RestoreReproducesClocks ==
  (lastOp.name = "Reload" /\ lastOp.snap = "fresh" /\ lastOp.accepted) =>
    /\ ClockFace(timerManager) = ClockFace(lastOp.prev.timerManager)
    /\ ClockFace(secondsTimer) = ClockFace(lastOp.prev.secondsTimer)

\* C7: a launch prompts for restore only if storage holds a snapshot less
\* than 24 hours old; with no snapshot there is no prompt.
C7_PromptOnlyForFreshSnapshot ==
  (lastOp.name \in LaunchOps /\ lastOp.prompted) => lastOp.snap = "fresh"

\* C8: after a launch that found a snapshot 24 hours old or older, the
\* in-memory log is empty and the timeout balances are at the configured
\* allotment.
C8_ExpiredSnapshotLeavesNothing ==
  (lastOp.name \in LaunchOps /\ lastOp.snap = "expired") =>
    /\ scoreLogs = << >>
    /\ \A t \in Teams :
         timeoutState[t].totalRemaining = gameSettings.timeoutsTotal

\* the MatchConfig fields of a stored state
ConfigOf(state) ==
  [ matchDuration |-> state.matchDuration,
    halftimeDuration |-> state.halftimeDuration,
    halftimeBreakDuration |-> state.halftimeBreakDuration,
    timeoutDuration |-> state.timeoutDuration,
    timeoutsTotal |-> state.timeoutsTotal,
    timeoutsPerHalf |-> state.timeoutsPerHalf ]

\* C9: after the operator refuses the restore prompt the match is fresh and
\* not started (empty log, 0:0, no stoppage) and its configuration, start
\* gender value included, is the one stored in the refused snapshot.
C9_RefusalKeepsConfig ==
  ( /\ lastOp.name \in LaunchOps /\ lastOp.snap = "fresh"
    /\ lastOp.prompted /\ ~lastOp.accepted )
  => /\ scoreLogs = << >> /\ teamAScore = 0 /\ teamBScore = 0
     /\ ~matchStarted /\ ~gameStoppageActive
     /\ gameSettings = ConfigOf(Snapshot)
     /\ abbaStart = Snapshot.abbaStart

\* the events that have a table row, and whether the table shows them
RowLogs(logs) ==
  SeqFilter(logs, LAMBDA l :
              l.Type \in {"timeout", "halftime", "stoppage", "score"})
TableShowsLog ==
  /\ Len(table) = Len(RowLogs(scoreLogs))
  /\ \A i \in 1..Len(table) :
       /\ table[i].scoreId = RowLogs(scoreLogs)[i].scoreID
       /\ table[i].type = RowLogs(scoreLogs)[i].Type

\* C10: the label of a Score event is a function of the start value and of
\* the event's index among the Score events of the log: M,F,F,M,M,F,F for
\* start M, the mirror image for start F, empty for start NONE; so the row
\* of every Score event shows the label of its index.
C10_LabelFollowsScoreIndex ==
  /\ \A k \in 0..6 :
       /\ computeAbbaForIndex("M", k) = <<"M","F","F","M","M","F","F">>[k+1]
       /\ computeAbbaForIndex("F", k) = <<"F","M","M","F","F","M","M">>[k+1]
       /\ computeAbbaForIndex("NONE", k) = ""
  /\ TableShowsLog =>
       \A i \in 1..Len(table) :
         table[i].type = "score" =>
           table[i].abba =
             computeAbbaForIndex(abbaStart,
               Cardinality({j \in 1..(i-1) : table[j].type = "score"}))

\* the per-half balance a halftime resets to: the per-half allotment, or
\* what is left of the total when that is less (no per-half limit: the total)
HalfAfterReset(settings, total) ==
  IF settings.timeoutsPerHalf > 0 THEN Min(settings.timeoutsPerHalf, total)
  ELSE total

LeadingScore(a, b) == IF a > b THEN a ELSE b

\* the log grew by exactly a Score event
AppendedScore(before, after) ==
  /\ Len(after) = Len(before) + 1
  /\ SubSeq(after, 1, Len(before)) = before
  /\ after[Len(after)].Type = "score"

\* the log grew by exactly a Score event followed by a Halftime event
AppendedScoreThenHalftime(before, after, reason) ==
  /\ Len(after) = Len(before) + 2
  /\ SubSeq(after, 1, Len(before)) = before
  /\ after[Len(before) + 1].Type = "score"
  /\ after[Len(before) + 2].Type = "halftime"
  /\ after[Len(before) + 2].HalftimeReason = reason

\* C11: an accepted AddScore in a running match with halftime not declared,
\* not suppressed and no clock-triggered halftime pending appends only the
\* Score event when the resulting leading score is below 8; from 8 on it
\* appends the Score event directly followed by a Halftime event of reason
\* "score", and each team's per-half balance is reset.
C11_ScoreTriggerAtTarget ==
  [][ ( /\ lastOp'.name = "AddScore"
        /\ matchStarted /\ ~hardCapReached
        /\ ~halftimeTriggered /\ ~halftimeAutoSuppressed
        /\ halftimePendingReason # "clock" )
      => IF LeadingScore(teamAScore', teamBScore') < HALFTIME_SCORE_TARGET
         THEN AppendedScore(scoreLogs, scoreLogs')
         ELSE /\ AppendedScoreThenHalftime(scoreLogs, scoreLogs', "score")
              /\ \A t \in Teams :
                   timeoutState'[t].halfRemaining =
                     HalfAfterReset(gameSettings, timeoutState[t].totalRemaining)
    ]_vars

\* the eighth goal declared halftime and gave side A, which had used its one
\* timeout of the first half, a timeout for the second half
C11_Witness ==
  /\ lastOp.name = "AddScore"
  /\ teamAScore = HALFTIME_SCORE_TARGET
  /\ scoreLogs[Len(scoreLogs)].Type = "halftime"
  /\ scoreLogs[Len(scoreLogs)].HalftimeReason = "score"
  /\ gameSettings.timeoutsPerHalf = 1
  /\ TimeoutEvents(scoreLogs, "A") = 1
  /\ timeoutState.A.halfRemaining = 1

\* the clock threshold of maybeTriggerHalftimeByTime, in seconds
ClockThreshold(settings) ==
  Max(0, settings.matchDuration - settings.halftimeDuration) * 60

\* a tick of the running primary clock in a match without halftime, which
\* finds the remaining time at or below the threshold
TickAtThreshold ==
  /\ lastOp'.name = "Tick"
  /\ matchStarted /\ ~halftimeTriggered
  /\ timerManager.isRunning
  /\ getRemainingSeconds(timerManager') <= ClockThreshold(gameSettings)

\* an accepted AddScore while a clock-triggered halftime is pending appends
\* exactly one Halftime event, right after the Score event, of reason
\* "score" when the score trigger fires too and "clock" otherwise, and
\* clears the pending mark
PendingHalftimeDeclared ==
  ( /\ lastOp'.name = "AddScore"
    /\ ~halftimeTriggered
    /\ halftimePendingReason = "clock" )
  => /\ AppendedScoreThenHalftime(scoreLogs, scoreLogs',
          IF LeadingScore(teamAScore', teamBScore') >= HALFTIME_SCORE_TARGET
          THEN "score" ELSE "clock")
     /\ HalftimeEvents(scoreLogs') = HalftimeEvents(scoreLogs) + 1
     /\ halftimePendingReason' = ""

ProgramState ==
  << teamAScore, teamBScore, matchStarted, gameStoppageActive,
     hardCapReached, halftimeTriggered, halftimeAutoSuppressed,
     halftimePendingReason, halftimeReasonResolved,
     currentHalftimeEditID, stoppagePausedMainTimer,
     stoppagePausedSecondsTimer, abbaStart, gameSettings, timeoutState,
     scoreLogs, gameState, isDirty, timerManager, secondsTimer, table,
     teamA, teamB, storage, inFlight >>

NoTimeoutLeft(team) ==
  \/ timeoutState[team].totalRemaining = 0
  \/ gameSettings.timeoutsPerHalf > 0 /\ timeoutState[team].halfRemaining = 0

\* C13: CallTimeout for a side whose totalRemaining is 0, or whose
\* halfRemaining is 0 with per-half limits enabled, leaves the log, both
\* teams' balances and the secondary clock unchanged.
C13_TimeoutWithoutBalanceRejected ==
  [][ \A t \in Teams :
        ( /\ lastOp'.name = "CallTimeout" /\ lastOp'.side = t
          /\ NoTimeoutLeft(t) )
        => /\ scoreLogs' = scoreLogs
           /\ timeoutState' = timeoutState
           /\ secondsTimer' = secondsTimer
    ]_vars

\* side A, in a running match without stoppage, has used its one timeout of
\* the half, has one left in total, and has just pressed the timeout button
C13_Witness ==
  /\ lastOp.name = "CallTimeout" /\ lastOp.side = "A"
  /\ matchStarted /\ ~gameStoppageActive
  /\ gameSettings.timeoutsPerHalf = 1
  /\ timeoutState.A = [totalRemaining |-> 1, halfRemaining |-> 0]
  /\ TimeoutEvents(scoreLogs, "A") = 1
  /\ scoreLogs[Len(scoreLogs)].Type # "timeout"

AtScoreCap == teamAScore >= CAP \/ teamBScore >= CAP

\* C14: a rejected action leaves the whole state unchanged: StartMatch
\* without both team names or during a stoppage, AddScore before StartMatch
\* or at the score cap, DeclareHalftime before StartMatch or with halftime
\* already declared, Submit with an empty log.
C14_RejectedActionChangesNothing ==
  [][ ( \/ /\ lastOp'.name = "StartMatch"
           /\ (teamA = "" \/ teamB = "" \/ gameStoppageActive)
        \/ /\ lastOp'.name = "AddScore"
           /\ (~matchStarted \/ hardCapReached)
        \/ /\ lastOp'.name = "DeclareHalftime"
           /\ (~matchStarted \/ halftimeTriggered)
        \/ /\ lastOp'.name = "SubmitBegin"
           /\ scoreLogs = << >> )
      => UNCHANGED ProgramState
    ]_vars

\* at the cap a timeout was called and then the score button pressed
C14_Witness ==
  /\ lastOp.name = "AddScore"
  /\ teamAScore = CAP /\ hardCapReached
  /\ scoreLogs[Len(scoreLogs)].Type = "timeout"

\* C20: while a team has CAP points or more the primary clock is not
\* running (it can run again only once a score has been deleted).
C20_NoPrimaryClockAtCap ==
  AtScoreCap => ~timerManager.isRunning

\* C15: in every reachable state in which the stoppage flag is set, neither
\* the primary nor the secondary clock is running.
C15_NoClockDuringStoppage ==
  gameStoppageActive => ~timerManager.isRunning /\ ~secondsTimer.isRunning

CountOfType(logs, type) == SeqCount(logs, LAMBDA l : l.Type = type)

\* C16: while the stoppage flag is set, no step appends a Timeout event or a
\* Score event to the log.
C16_NoPlayDuringStoppage ==
  [][ gameStoppageActive =>
        /\ CountOfType(scoreLogs', "score") <= CountOfType(scoreLogs, "score")
        /\ CountOfType(scoreLogs', "timeout") <= CountOfType(scoreLogs, "timeout")
    ]_vars

\* what a clock has left: its deadline while running, the time kept by stop
\* otherwise
ClockRemaining(clock) ==
  IF clock.isRunning THEN clock.endTime ELSE clock.remainingTimeMs

StoppagePausesBoth ==
  ( /\ lastOp'.name = "ToggleStoppage"
    /\ ~gameStoppageActive
    /\ timerManager.isRunning /\ secondsTimer.isRunning )
  => /\ gameStoppageActive'
     /\ ~timerManager'.isRunning /\ ~secondsTimer'.isRunning
     /\ ClockRemaining(timerManager') = ClockRemaining(timerManager)
     /\ ClockRemaining(secondsTimer') = ClockRemaining(secondsTimer)

StoppageResumesBoth ==
  ( /\ lastOp'.name = "ToggleStoppage"
    /\ gameStoppageActive
    /\ stoppagePausedMainTimer /\ stoppagePausedSecondsTimer
    /\ ~timerManager.isRunning /\ ~secondsTimer.isRunning
    /\ matchStarted /\ ~hardCapReached )
  => /\ ~gameStoppageActive'
     /\ timerManager'.isRunning /\ secondsTimer'.isRunning
     /\ ClockRemaining(timerManager') = ClockRemaining(timerManager)
     /\ ClockRemaining(secondsTimer') = ClockRemaining(secondsTimer)

\* C17: ToggleStoppage with both clocks running stops both and keeps what
\* each had left; the ToggleStoppage that ends the stoppage (match running,
\* cap not reached) makes both run again from exactly what was kept, not
\* from the configured duration.
C17_StoppageKeepsRemainingTime ==
  [][ StoppagePausesBoth /\ StoppageResumesBoth ]_vars

\* the stoppage has just ended and both clocks run from less than their
\* configured durations
C17_Witness ==
  /\ lastOp.name = "ToggleStoppage" /\ ~gameStoppageActive
  /\ timerManager.isRunning /\ secondsTimer.isRunning
  /\ timerManager.endTime[1] < timerManager.defaultMinutes * 60
  /\ secondsTimer.endTime[1] < gameSettings.timeoutDuration

\* C18: neither team's score ever exceeds CAP: once a team has CAP points
\* every AddScore is rejected (the log and the scoreboard stay as they are).
C18_ScoreNeverAboveCap ==
  [][ /\ teamAScore' <= CAP /\ teamBScore' <= CAP
      /\ (lastOp'.name = "AddScore" /\ AtScoreCap) =>
           /\ scoreLogs' = scoreLogs
           /\ teamAScore' = teamAScore /\ teamBScore' = teamBScore
    ]_vars

\* C19: after every AddScore that brings a team to CAP points both the
\* primary and the secondary clock are stopped.
C19_ClocksStoppedAtCap ==
  [][ ( /\ lastOp'.name = "AddScore"
        /\ ~AtScoreCap
        /\ teamAScore' = CAP \/ teamBScore' = CAP )
      => ~timerManager'.isRunning /\ ~secondsTimer'.isRunning
    ]_vars

\* the rows of an export of the given log, in insertion order
ExportRows(logs) ==
  [i \in 1..Len(logs) |->
     [ Event |-> logs[i].EventType, Team |-> logs[i].Team,
       Score |-> logs[i].Score, Assist |-> logs[i].Assist ]]

\* a submission is pending from the accepted Submit, which takes the rows of
\* the log, to the step that exports them; no other step exports
OneExportPerSubmit ==
  /\ (lastOp'.name = "SubmitBegin" /\ scoreLogs # << >>) =>
        /\ inFlight' = Append(inFlight, ExportRows(scoreLogs))
        /\ lastOp'.export = Null
  /\ lastOp'.name = "SubmitFinish" =>
        /\ inFlight # << >> /\ inFlight' = Tail(inFlight)
        /\ lastOp'.export = Some(Head(inFlight))
  /\ lastOp'.name \notin {"SubmitBegin", "SubmitFinish"} =>
        /\ inFlight' = inFlight
        /\ lastOp'.export = Null

\* C21: every Submit accepted with a non-empty log leads to exactly one
\* local export, of the log as it was submitted, whether the remote
\* submission succeeds or fails.
C21_SubmitExportsOnce ==
  /\ [][OneExportPerSubmit]_vars
  /\ (inFlight # << >>) ~> (lastOp.name = "SubmitFinish" /\ lastOp.export # Null)

\* the remote submission failed and the log of three events was exported
C21_Witness ==
  /\ lastOp.name = "SubmitFinish" /\ lastOp.sink = "failed"
  /\ lastOp.export # Null /\ Len(lastOp.export[1]) = 3

\* the timeout balances a match starts with under the given settings
Allotment(settings) ==
  LET total == settings.timeoutsTotal
      half == IF settings.timeoutsPerHalf > 0
              THEN Min(settings.timeoutsPerHalf, total) ELSE total
      each == [totalRemaining |-> total, halfRemaining |-> half]
  IN [A |-> each, B |-> each]

C23_SubmitResetsClocks ==
  lastOp.name = "SubmitFinish" =>
    /\ ~timerManager.isRunning /\ ~secondsTimer.isRunning
    /\ ClockRemaining(timerManager) = Some(gameSettings.matchDuration * 60)

\* C24: the rows exported by a Submit are exactly the events it removes from
\* the log, one row per event in insertion order.
C24_ExportedWhatIsCleared ==
  [][ lastOp'.name = "SubmitFinish" =>
        /\ scoreLogs' = << >>
        /\ lastOp'.export = Some(ExportRows(scoreLogs))
    ]_vars

\* C28: Submit without both team names or with an empty log changes
\* nothing and starts no submission.
C28_SubmitNeedsTeamsAndLog ==
  [][ ( /\ lastOp'.name = "SubmitBegin"
        /\ (teamA = "" \/ teamB = "" \/ scoreLogs = << >>) )
      => UNCHANGED ProgramState
    ]_vars

\* C25: in the export the Event field of a row depends on the kind of the
\* event only: empty for a score, "TimeOut", "HalfTime", "Stoppage" and
\* "Start" for the other kinds.
C25_ExportEventLabels ==
  [][ (lastOp'.name = "SubmitBegin" /\ scoreLogs # << >>) =>
        \A i \in 1..Len(scoreLogs) :
          inFlight'[Len(inFlight')][i].Event =
            CASE scoreLogs[i].Type = "score"      -> ""
              [] scoreLogs[i].Type = "timeout"    -> "TimeOut"
              [] scoreLogs[i].Type = "halftime"   -> "HalfTime"
              [] scoreLogs[i].Type = "stoppage"   -> "Stoppage"
              [] scoreLogs[i].Type = "matchstart" -> "Start"
    ]_vars

\* C26: no two events of the log share an id, and the ids strictly increase
\* along the log.
C26_IdsStrictlyIncrease ==
  \A i, j \in 1..Len(scoreLogs) :
    i < j => scoreLogs[i].scoreID < scoreLogs[j].scoreID

\* the snapshot the in-memory match state calls for
SnapshotOf(w) ==
  [ teamAScore |-> w.teamAScore, teamBScore |-> w.teamBScore,
    teamAName |-> w.teamA, teamBName |-> w.teamB,
    matchDuration |-> w.gameSettings.matchDuration,
    halftimeDuration |-> w.gameSettings.halftimeDuration,
    halftimeBreakDuration |-> w.gameSettings.halftimeBreakDuration,
    timeoutDuration |-> w.gameSettings.timeoutDuration,
    timeoutsTotal |-> w.gameSettings.timeoutsTotal,
    timeoutsPerHalf |-> w.gameSettings.timeoutsPerHalf,
    abbaStart |-> w.abbaStart,
    stoppageActive |-> w.gameStoppageActive,
    timeoutState |-> getTimeoutStateSnapshot(w),
    halftimeReasonResolved |-> w.halftimeReasonResolved,
    scoreLogs |-> w.scoreLogs,
    matchStarted |-> w.matchStarted, timestamp |-> 0 ]

SnapshotCurrent == storage.gameState = Some(SnapshotOf(World))

NoHalftimeFor(reason) ==
  \A i \in 1..Len(scoreLogs) :
    scoreLogs[i].Type = "halftime" => scoreLogs[i].HalftimeReason # reason

\* C29: once a halftime entry is deleted with the leading score at the
\* halftime score or above, and while the leading score has not dropped
\* below it, no step declares halftime by the score.
C29_NoScoreHalftimeAfterUndo ==
  [][lastOp.undoneAtTarget => NoHalftimeFor("score")']_vars

\* C30: once a halftime entry is deleted with the primary clock at the
\* threshold or below, and while the remaining time stays at or below the
\* threshold, no step marks a halftime by the clock pending or declares it.
C30_NoClockHalftimeAfterUndo ==
  [][ ( /\ lastOp.undoneAtThreshold
        /\ getRemainingSeconds(timerManager') <= ClockThreshold(gameSettings') )
      => (halftimePendingReason' # "clock" /\ NoHalftimeFor("clock")')
    ]_vars

\* the position of the most recent Halftime event of a log (0: none)
LatestHalftime(logs) ==
  IF \E i \in 1..Len(logs) : logs[i].Type = "halftime"
  THEN CHOOSE i \in 1..Len(logs) :
         /\ logs[i].Type = "halftime"
         /\ \A j \in (i+1)..Len(logs) : logs[j].Type # "halftime"
  ELSE 0

\* a manual DeclareHalftime would be accepted: it appends a Halftime event
ManualHalftimeAccepted ==
  HalftimeEvents(handleHalftime(World, "manual").scoreLogs) =
    HalftimeEvents(scoreLogs) + 1

\* C31: DeleteHalftime removes exactly one event, the most recent Halftime
\* event, from the log; the scoreboard is unchanged, halftime is not
\* declared afterwards and a manual DeclareHalftime is accepted again.
C31_DeleteHalftimeReopensHalf ==
  /\ [][ lastOp'.name = "DeleteHalftime" =>
          /\ LatestHalftime(scoreLogs) # 0
          /\ scoreLogs' =
               DenseLogs(RemoveAt(scoreLogs, LatestHalftime(scoreLogs)))
          /\ teamAScore' = teamAScore /\ teamBScore' = teamBScore
      ]_vars
  /\ [](lastOp.name = "DeleteHalftime" =>
         ~halftimeTriggered /\ ManualHalftimeAccepted)

\* C32: the ToggleStoppage that clears a stoppage starts a clock only if
\* that clock was running when the stoppage began, the match is running and
\* the cap is not reached; a clock stopped before the stoppage stays stopped.
C32_ClearingRestartsOnlyPausedClocks ==
  [][ (lastOp'.name = "ToggleStoppage" /\ gameStoppageActive) =>
        /\ (timerManager'.isRunning /\ ~timerManager.isRunning) =>
             (stoppagePausedMainTimer /\ matchStarted /\ ~hardCapReached)
        /\ (secondsTimer'.isRunning /\ ~secondsTimer.isRunning) =>
             (stoppagePausedSecondsTimer /\ matchStarted /\ ~hardCapReached)
    ]_vars

\* the log grew by exactly one Halftime event carrying the reason
AppendedHalftime(before, after, reason) ==
  /\ Len(after) = Len(before) + 1
  /\ SubSeq(after, 1, Len(before)) = before
  /\ after[Len(after)].Type = "halftime"
  /\ after[Len(after)].HalftimeReason = reason

\* C33: an accepted DeclareHalftime appends one Halftime event with its
\* reason, sets each team's per-half balance to the per-half allotment (or
\* to what is left of the total when that is less; to the total when there
\* is no per-half limit), keeps every total balance, and leaves the
\* secondary clock running from the full halftime-break duration.
C33_DeclareHalftimeEffects ==
  [][ (lastOp'.name = "DeclareHalftime" /\ matchStarted /\ ~halftimeTriggered)
      => /\ AppendedHalftime(scoreLogs, scoreLogs', "manual")
         /\ \A t \in Teams :
              /\ timeoutState'[t].halfRemaining =
                   HalfAfterReset(gameSettings, timeoutState[t].totalRemaining)
              /\ timeoutState'[t].totalRemaining =
                   timeoutState[t].totalRemaining
         /\ secondsTimer'.isRunning
         /\ secondsTimer'.endTime =
              Some(gameSettings.halftimeBreakDuration * 60)
    ]_vars

\* halftime was declared by hand while the timeout clock of side A's only
\* timeout of the first half was running
C33_Witness ==
  /\ lastOp.name = "DeclareHalftime"
  /\ scoreLogs[Len(scoreLogs)].Type = "halftime"
  /\ scoreLogs[Len(scoreLogs)].HalftimeReason = "manual"
  /\ gameSettings.timeoutsPerHalf = 1
  /\ TimeoutEvents(scoreLogs, "A") = 1
  /\ timeoutState.A.halfRemaining = 1
  /\ timeoutState.A.totalRemaining = 1
  /\ secondsTimer.isRunning

\* C34: in every reachable state, for each team
\* 0 <= halfRemaining <= totalRemaining <= configured total timeouts, and
\* without a per-half limit halfRemaining equals totalRemaining.
C34_TimeoutBalancesOrdered ==
  \A t \in Teams :
    /\ 0 <= timeoutState[t].halfRemaining
    /\ timeoutState[t].halfRemaining <= timeoutState[t].totalRemaining
    /\ timeoutState[t].totalRemaining <= gameSettings.timeoutsTotal
    /\ gameSettings.timeoutsPerHalf = 0 =>
         timeoutState[t].halfRemaining = timeoutState[t].totalRemaining

\* durations handed to reset: minutes for the primary clock, seconds for
\* the secondary clock
ResetMinutes == {1, DEFAULT_TIMER_MINUTES}
ResetSeconds == {1, DefaultTimeoutDuration, DefaultHalftimeBreakDuration * 60}

Stopped(clock, remaining) ==
  /\ ~clock.isRunning
  /\ clock.endTime = Null
  /\ clock.remainingTimeMs = Some(remaining)

Running(clock, remaining) ==
  /\ clock.isRunning
  /\ clock.endTime = Some(remaining)

\* C35: for each clock, in every reachable state: reset(d) gives a stopped
\* clock with d left; stop() followed at once by start() gives a running
\* clock with what it had left; start() of a stopped clock counts from the
\* remembered time, and from the configured default when there is none;
\* the remembered time is not negative; the clock is running exactly when
\* it holds a deadline.
C35_ClockLaws ==
  /\ \A m \in ResetMinutes :
       Stopped(tmReset(World, m).timerManager, m * 60)
  /\ \A d \in ResetSeconds :
       Stopped(secReset(World, d).secondsTimer, d)
  /\ timerManager.isRunning =>
       Running(tmStart(tmStop(World)).timerManager, timerManager.endTime[1])
  /\ secondsTimer.isRunning =>
       Running(secStart(secStop(World)).secondsTimer, secondsTimer.endTime[1])
  /\ ~timerManager.isRunning =>
       Running(tmStart(World).timerManager,
               IF timerManager.remainingTimeMs # Null
               THEN timerManager.remainingTimeMs[1]
               ELSE timerManager.defaultMinutes * 60)
  /\ ~secondsTimer.isRunning =>
       Running(secStart(World).secondsTimer,
               IF secondsTimer.remainingTimeMs # Null
               THEN secondsTimer.remainingTimeMs[1]
               ELSE gameSettings.timeoutDuration)
  /\ timerManager.remainingTimeMs # Null => timerManager.remainingTimeMs[1] >= 0
  /\ secondsTimer.remainingTimeMs # Null => secondsTimer.remainingTimeMs[1] >= 0
  /\ timerManager.isRunning <=> timerManager.endTime # Null
  /\ secondsTimer.isRunning <=> secondsTimer.endTime # Null

\* the operator stopped the primary clock and started it again after some
\* time had run off; the secondary clock stands still with time remembered
C35_Witness ==
  /\ lastOp.name = "TimerToggle"
  /\ timerManager.isRunning
  /\ timerManager.endTime[1] < timerManager.defaultMinutes * 60
  /\ ~secondsTimer.isRunning
  /\ secondsTimer.remainingTimeMs # Null

\* a clock whose deadline has passed
Expired(clock) == clock.isRunning /\ clock.endTime = Some(0)

\* C36: when time has passed with the interval callbacks firing, no clock is
\* left running past its deadline: a clock that ran down is stopped with
\* nothing left, and when the primary clock ran down the tick callback was
\* invoked (it marks the halftime by the clock pending when that is due).
C36_ExpiredClockStops ==
  [][ lastOp'.name = "Tick" =>
        /\ ~Expired(timerManager') /\ ~Expired(secondsTimer')
        /\ (timerManager.isRunning /\ ~timerManager'.isRunning) =>
             /\ timerManager'.remainingTimeMs = Some(0)
             /\ ( /\ matchStarted /\ ~halftimeTriggered
                  /\ ~halftimeAutoSuppressed
                  /\ ClockThreshold(gameSettings) > 0 )
                => halftimePendingReason' = "clock"
        /\ (secondsTimer.isRunning /\ ~secondsTimer'.isRunning) =>
             secondsTimer'.remainingTimeMs = Some(0)
    ]_vars

\* C37: a Score event is appended to the log only by a step taken while the
\* match is Running (started and not yet submitted), whatever the order of
\* the steps of the score form and of a waiting submission
C37_ScoreOnlyWhileRunning ==
  [][ CountOfType(scoreLogs', "score") > CountOfType(scoreLogs, "score")
        => matchStarted /\ matchStarted' ]_vars

\* rows s are the first rows of rows t
IsPrefix(s, t) == Len(s) <= Len(t) /\ SubSeq(t, 1, Len(s)) = s

\* C38: no event is sent to the remote sink twice and no event is exported to
\* a local file twice.  An event is its place in the log; a completed
\* submission clears the log, so the events in the log are the ones not yet
\* exported.  A payload is never sent while a waiting payload holds its first
\* events, and a file exported when a submission settles holds events that
\* are still in the log.
C38_NoEventExportedTwice ==
  [][ /\ Len(inFlight') > Len(inFlight) =>
           \A i \in 1..Len(inFlight) :
              ~IsPrefix(inFlight[i], inFlight'[Len(inFlight')])
      /\ (lastOp'.name = "SubmitFinish" /\ lastOp'.export # Null) =>
           IsPrefix(lastOp'.export[1], SubmitPayload(World))
    ]_vars

\* C39: the halftime-declared flag is set exactly when the log holds a
\* Halftime event, and the resolved halftime reason is present exactly when
\* it does.
C39_HalftimeFlagsFollowLog ==
  /\ halftimeTriggered <=> CountOfType(scoreLogs, "halftime") > 0
  /\ halftimeReasonResolved # "" <=> CountOfType(scoreLogs, "halftime") > 0

\* C40: the score-cap flag is set exactly when a side has CAP points or more.
C40_CapFlagFollowsScore ==
  hardCapReached <=> (teamAScore >= CAP \/ teamBScore >= CAP)

====
